---- MODULE Spec2Model ----
(***************************************************************************)
(* Model of the weeklyNewsEditor review workflow: the in-memory message    *)
(* store and news list (storage.ts), the inline keyboards (keyboards.ts),  *)
(* the callback router and text handler (handlers.ts), the new-prompt      *)
(* conversation (conversations.ts), the scraper loop (scraper.ts) and the  *)
(* retrying sender (utils.ts).                                             *)
(***************************************************************************)
EXTENDS Integers, Sequences, FiniteSets, TLC

VARIABLES
    messageStore,   \* storage.ts messageStore: token id -> MessageData
    issued,         \* number of uuidv4() values drawn so far
    newsList,       \* storage.ts newsList: set of fullFormattedMessage strings
    session,        \* grammY session, one SessionData per chat (default session key)
    convs,          \* per chat: the active newPromptConversation instances, oldest first
    kbd,            \* per token: keyboard currently rendered on that token's prompt message
    scr,            \* the running runScraper() invocations
    published,      \* per token: messages sent to the news channel by the 'chn' case
    itemSent,       \* per fullFormattedMessage: link-only messages sent to the editors group
    delivered,      \* per fullFormattedMessage: complete deliveries (message and keyboard)
    overlapped,     \* TRUE once a scrape cycle started while another was running
    last,           \* the last inbound update handled and the calls its handler made
    hist,           \* observations about finished conversations and rewritten items
    nEvents,        \* number of inbound updates handled
    nCycles,        \* number of runScraper() calls so far, by caller
    snd             \* one sendMessageWithRetry() invocation

vars == <<messageStore, issued, newsList, session, convs, kbd, scr, published,
          itemSent, delivered, overlapped, last, hist, nEvents, nCycles, snd>>

botVars == <<messageStore, issued, newsList, session, convs, kbd, scr, published,
             itemSent, delivered, overlapped, last, hist, nEvents, nCycles>>

-----------------------------------------------------------------------------
(* Bounds *)

MaxTokens == 2      \* uuids that may be drawn
MaxEvents == 2      \* inbound updates (clicks and text messages) handled
MaxReviewEvents == 3 \* updates handled while one editor reviews items
MaxScheduled == 1   \* scrape cycles started by the scheduler's setInterval
MaxAdhoc == 1       \* scrape cycles started from the start_scraping button
MaxFeed == 2        \* article elements on the scraped home page
MaxConvs == 2       \* conversation instances alive in one chat
MaxSendRetries == 3 \* largest maxRetries passed to sendMessageWithRetry
MaxRetryAfter == 5  \* largest retry_after (seconds) a 429 carries

(* Program constants *)

UuidLength == 36
DefaultMaxRetries == 3
DefaultInitialDelay == 1000

-----------------------------------------------------------------------------
(* Values *)

NoToken == 0
NoMessage == 0
EditorsGroup == "editors"
PrivateChat == "private"
Chats == {EditorsGroup, PrivateChat}
AllowedUser == "admin"
ListenerUser == "listener"
Stranger == "stranger"
Users == {AllowedUser, ListenerUser, Stranger}
DefaultModel == "gpt-4o"
Tokens == 1..MaxTokens

\* A string is a sequence of atoms: literal pieces, rendered uuids, filler.
Lit(s) == [lit |-> s]
Uuid(n) == [uuid |-> n]
Filler(n) == [filler |-> n]
Colon == Lit(":")
EmptyString == <<>>

LitLen(s) ==
    CASE s = "4o" -> 2
      [] s = "3.5t" -> 4
      [] s = "cancel" -> 6
      [] s = "start_scraping" -> 14
      [] s = "support" -> 7
      [] s = ":" -> 1
      [] OTHER -> 3

AtomLen(a) ==
    IF "lit" \in DOMAIN a THEN LitLen(a.lit)
    ELSE IF "uuid" \in DOMAIN a THEN UuidLength
    ELSE a.filler

RECURSIVE StrLen(_)
StrLen(s) == IF s = <<>> THEN 0 ELSE AtomLen(Head(s)) + StrLen(Tail(s))

\* String.prototype.split(':') without a limit: every piece between separators
RECURSIVE SplitAll(_, _)
SplitAll(s, cur) ==
    IF s = <<>> THEN <<cur>>
    ELSE IF Head(s) = Colon THEN <<cur>> \o SplitAll(Tail(s), <<>>)
    ELSE SplitAll(Tail(s), Append(cur, Head(s)))

\* callbackData.split(':', limit): at most the first `limit` pieces of the full split
Split(s, limit) ==
    LET all == SplitAll(s, <<>>)
    IN IF Len(all) <= limit THEN all ELSE SubSeq(all, 1, limit)

\* a || b on strings: the empty string is falsy
OrElse(a, b) == IF a # EmptyString THEN a ELSE b

-----------------------------------------------------------------------------
(* keyboards.ts *)

Button(text, data) == [text |-> text, callback_data |-> data]

\* a main keyboard whose first two buttons carry each other's data
createMainKeyboard_swapped(messageStoreId) ==
    << <<Button("Send to GPT", <<Lit("chn"), Colon>> \o messageStoreId)>>,
       <<Button("Send to News Channel", <<Lit("gpt"), Colon>> \o messageStoreId)>>,
       <<Button("New Prompt", <<Lit("prm"), Colon>> \o messageStoreId)>> >>

createMainKeyboard(messageStoreId) ==
    << <<Button("Send to GPT", <<Lit("gpt"), Colon>> \o messageStoreId)>>,
       <<Button("Send to News Channel", <<Lit("chn"), Colon>> \o messageStoreId)>>,
       <<Button("New Prompt", <<Lit("prm"), Colon>> \o messageStoreId)>> >>

createCancelKeyboard(messageStoreId) ==
    << <<Button("Cancel New Prompt", <<Lit("cnp"), Colon>> \o messageStoreId)>> >>

createGptModelKeyboard ==
    << <<Button("GPT-4o", <<Lit("gpt"), Colon, Lit("4o")>>),
         Button("GPT-3.5 Turbo", <<Lit("gpt"), Colon, Lit("3.5t")>>)>>,
       <<Button("Cancel", <<Lit("gpt"), Colon, Lit("cancel")>>)>> >>

\* the keyboard of bot.command("start")
createStartKeyboard ==
    << <<Button("Start Scraping", <<Lit("start_scraping")>>)>>,
       <<Button("Support", <<Lit("support")>>)>> >>

EmptyKeyboard == <<>>

-----------------------------------------------------------------------------
(* storage.ts *)

\* uuidv4(): the n-th value drawn, rendered as a 36 character string
uuidv4(n) == <<Uuid(n)>>

\* the key under which messageStore holds the string id, if any
KeyOf(id) == IF \E n \in Tokens : id = uuidv4(n)
             THEN CHOOSE n \in Tokens : id = uuidv4(n)
             ELSE NoToken

storeMessageData(store, n, data) ==
    [k \in (DOMAIN store) \cup {n} |-> IF k = n THEN data ELSE store[k]]

hasMessageData(store, id) == KeyOf(id) \in DOMAIN store

getMessageData(store, id) == store[KeyOf(id)]

deleteMessageData(store, n) == [k \in (DOMAIN store) \ {n} |-> store[k]]

addSentNews(list, news) == list \cup {news.fullFormattedMessage}

\* a news list that never reports an item as sent
\* a membership test on the title and the link alone: the first and the last part
\* of the identifier
hasNewsBeenSent_byLink(list, news) ==
    \E f \in list :
        /\ f[1] = news.fullFormattedMessage[1]
        /\ f[Len(f)] = news.fullFormattedMessage[Len(news.fullFormattedMessage)]

hasNewsBeenSent_never(list, news) == FALSE

hasNewsBeenSent(list, news) == news.fullFormattedMessage \in list

-----------------------------------------------------------------------------
(* Calls made to collaborators while one update is handled *)

Call(op, arg, ok) == [op |-> op, arg |-> arg, ok |-> ok]

Did(b, op, arg, ok) == [b EXCEPT !.fx = Append(@, Call(op, arg, ok))]

\* what is kept of a call once the update is handled
Label(call) ==
    [op |-> call.op, ok |-> call.ok,
     text |-> IF call.op \in {"ack", "reply"} THEN call.arg
              ELSE IF call.op = "gpt" THEN call.arg[3] ELSE "",
     id |-> IF call.op \in {"get", "create"} THEN call.arg ELSE EmptyString]

Max(a, b) == IF a >= b THEN a ELSE b

\* an awaited call whose result is o[site]
Try(b, op, arg, o, site) ==
    [b EXCEPT !.fx = Append(@, Call(op, arg, o[site])), !.used = @ \cup {site}]

\* the names of the transport / model calls whose result an update handler awaits
CallSites == {"ack", "edit", "send", "notice", "reply", "gpt", "s1", "s2", "s3", "e2", "e3"}

\* every call succeeds except those in `failing`
Outcome(failing) == [f \in CallSites |-> f \notin failing]

\* the program state one handler works on
Cur == [ms |-> messageStore, iss |-> issued, se |-> session, cv |-> convs,
        kb |-> kbd, pub |-> published, h |-> hist, fx |-> <<>>, used |-> {}, spawn |-> 0]

Render(b, m, layout) ==
    IF m = NoMessage THEN b
    ELSE [b EXCEPT !.kb[m] = [sent |-> TRUE, layout |-> layout]]

GptText == <<Lit("summary")>>
ReadyPrompt == <<Lit("readyPrompt")>>

MessageData(id, text, scrapedContent) ==
    [messageId |-> id,
     originalMessageText |-> text,
     keyboard |-> createMainKeyboard(id),
     cancelButton |-> createCancelKeyboard(id)[1],
     scrapedMessageContent |-> scrapedContent,
     gptGeneratedContent |-> EmptyString]

-----------------------------------------------------------------------------
(* handlers.ts *)

\* an authorization test that lets every sender through
isUserAuthorized_everyone(u) == TRUE

isUserAuthorized(u) == u = AllowedUser \/ u = ListenerUser

\* an id generator that hands out again the id of a context that was deleted
FreshToken_reuse(iss, store) ==
    IF \E k \in 1..iss : k \notin DOMAIN store
    THEN CHOOSE k \in 1..iss : k \notin DOMAIN store
    ELSE iss + 1

\* the key of the id the next uuidv4() call returns: one that no earlier call returned
FreshToken(iss, store) == iss + 1

\* a prompt that stores the context after the sends
sendActionPrompt_storeLast(b, text, scrapedContent, o) ==
    LET n == FreshToken(b.iss, b.ms)
        messageStoreId == uuidv4(n)
        keyboard == createMainKeyboard(messageStoreId)
        b2 == Try(b, "send", text, o, "s1")
        b3 == IF o.s1 THEN Try(b2, "sendKeyboard", messageStoreId, o, "s2") ELSE b2
        b4 == IF o.s1 /\ o.s2 THEN Render(b3, n, keyboard)
              ELSE LET b5 == Try(b3, "sendKeyboard", messageStoreId, o, "s3")
                   IN IF o.s3 THEN Render(b5, n, keyboard) ELSE b5
    IN Did([b4 EXCEPT !.iss = Max(b.iss, n),
                      !.ms = storeMessageData(b.ms, n,
                                 MessageData(messageStoreId, text, scrapedContent))],
           "create", messageStoreId, TRUE)

\* sendActionPrompt (and its copy sendActionPromptHelper in conversations.ts)
sendActionPrompt(b, text, scrapedContent, o) ==
    LET n == FreshToken(b.iss, b.ms)
        messageStoreId == uuidv4(n)
        keyboard == createMainKeyboard(messageStoreId)
        b1 == Did([b EXCEPT !.iss = Max(b.iss, n),
                            !.ms = storeMessageData(b.ms, n,
                                       MessageData(messageStoreId, text, scrapedContent))],
                  "create", messageStoreId, TRUE)
        b2 == Try(b1, "send", text, o, "s1")
        b3 == IF o.s1 THEN Try(b2, "sendKeyboard", messageStoreId, o, "s2") ELSE b2
    IN IF o.s1 /\ o.s2
       THEN Render(b3, n, keyboard)
       ELSE LET b4 == Try(b3, "sendKeyboard", messageStoreId, o, "s3")
            IN IF o.s3 THEN Render(b4, n, keyboard) ELSE b4

\* the catch block that ends buttonClickHandler; a failure of its reply is only logged
CatchReply(b, o) == Did(b, "reply", "error", TRUE)

\* newPromptConversation up to its waitFor(":text")
ConversationEntry(b, c, u, m, o) ==
    LET messageStoreId == b.se[c].messageStoreIdForNewPrompt
    IN IF messageStoreId = EmptyString
       THEN [b1 |-> Try([b EXCEPT !.h.exit[c] = "no id"], "reply", "no context", o, "reply"),
             waiting |-> FALSE, threw |-> ~o.reply]
       ELSE IF ~hasMessageData(b.ms, messageStoreId)
       THEN LET b1 == Try([b EXCEPT !.h.exit[c] = "missing"], "reply", "context not found", o, "reply")
            IN IF ~o.reply THEN [b1 |-> b1, waiting |-> FALSE, threw |-> TRUE]
               ELSE [b1 |-> IF o.e2 THEN Render(Try(b1, "strip", m, o, "e2"), m, EmptyKeyboard)
                                   ELSE Try(b1, "strip", m, o, "e2"),
                     waiting |-> FALSE, threw |-> FALSE]
       ELSE LET messageData == getMessageData(b.ms, messageStoreId)
                cancelKeyboard == createCancelKeyboard(messageStoreId)
                b1 == Try(b, "edit", "enter prompt", o, "e2")
                b2 == IF o.e2
                      THEN (IF o.e3
                            THEN Render(Try(b1, "editMarkup", messageStoreId, o, "e3"), m, cancelKeyboard)
                            ELSE Try(b1, "editMarkup", messageStoreId, o, "e3"))
                      ELSE b1
                inst == [tok |-> KeyOf(messageStoreId), data |-> messageData, msg |-> m,
                         user |-> u]
                wait(bb) == [bb EXCEPT !.cv[c] = Append(@, inst)]
            IN IF o.e2 /\ o.e3
               THEN [b1 |-> wait(b2), waiting |-> TRUE, threw |-> FALSE]
               ELSE LET b3 == Try(b2, "reply", "enter prompt", o, "reply")
                    IN IF o.reply THEN [b1 |-> wait(b3), waiting |-> TRUE, threw |-> FALSE]
                       ELSE [b1 |-> b3, waiting |-> FALSE, threw |-> TRUE]

\* the acknowledgement of a model selection: "Model set to GPT-4o", "Model set to
\* GPT-3.5 Turbo", "Cancelled"
ModelAck(dataPart) ==
    IF dataPart = <<Lit("4o")>> THEN "model 4o"
    ELSE IF dataPart = <<Lit("3.5t")>> THEN "model 3.5t"
    ELSE "model cancel"

\* a model selection that empties the session's prompt slot as well
ModelCase_clearsSlot(b, c, m, dataPart, o) ==
    LET b1 == Try(b, "ack", ModelAck(dataPart), o, "ack")
        model == IF dataPart = <<Lit("4o")>> THEN "gpt-4o" ELSE "gpt-3.5-turbo"
        b2 == IF dataPart = <<Lit("cancel")>> THEN b1
              ELSE Did([b1 EXCEPT !.se[c].currentGptModel = model,
                                  !.se[c].messageStoreIdForNewPrompt = EmptyString,
                                  !.h.selected[c] = model],
                       "session", model, TRUE)
        b3 == Try(b2, "edit", "model", o, "edit")
    IN IF ~o.ack THEN b1
       ELSE IF o.edit THEN Render(b3, m, EmptyKeyboard) ELSE b3

\* a cancel that puts the configured default model back
ModelCase_cancelResets(b, c, m, dataPart, o) ==
    LET b1 == Try(b, "ack", ModelAck(dataPart), o, "ack")
        model == IF dataPart = <<Lit("4o")>> THEN "gpt-4o" ELSE "gpt-3.5-turbo"
        b2 == IF dataPart = <<Lit("cancel")>>
              THEN Did([b1 EXCEPT !.se[c].currentGptModel = DefaultModel],
                       "session", DefaultModel, TRUE)
              ELSE Did([b1 EXCEPT !.se[c].currentGptModel = model,
                                  !.h.selected[c] = model], "session", model, TRUE)
        b3 == Try(b2, "edit", "model", o, "edit")
    IN IF ~o.ack THEN b1
       ELSE IF o.edit THEN Render(b3, m, EmptyKeyboard) ELSE b3

ModelCase(b, c, m, dataPart, o) ==
    LET b1 == Try(b, "ack", ModelAck(dataPart), o, "ack")
        model == IF dataPart = <<Lit("4o")>> THEN "gpt-4o" ELSE "gpt-3.5-turbo"
        b2 == IF dataPart = <<Lit("cancel")>> THEN b1
              ELSE Did([b1 EXCEPT !.se[c].currentGptModel = model,
                                  !.h.selected[c] = model], "session", model, TRUE)
        b3 == Try(b2, "edit", "model", o, "edit")
    IN IF ~o.ack THEN b1
       ELSE IF o.edit THEN Render(b3, m, EmptyKeyboard) ELSE b3

\* the run launched ahead of the acknowledgement and the reply
StartScrapingCase_scrapeFirst(b, o) ==
    LET b0 == Did([b EXCEPT !.spawn = 1], "runScraper", "detached", TRUE)
        b1 == Try(b0, "ack", "start scraping", o, "ack")
        b2 == Try(b1, "reply", "scraping initiated", o, "reply")
    IN IF ~o.ack THEN b1 ELSE b2

StartScrapingCase(b, o) ==
    LET b1 == Try(b, "ack", "start scraping", o, "ack")
        b2 == Try(b1, "reply", "scraping initiated", o, "reply")
    IN IF ~o.ack THEN b1
       ELSE IF ~o.reply THEN b2
       ELSE Did([b2 EXCEPT !.spawn = 1], "runScraper", "detached", TRUE)

\* the support button answered by its reply alone
SupportCase_noAck(b, o) == Try(b, "reply", "support", o, "reply")

SupportCase(b, o) ==
    LET b1 == Try(b, "ack", "support", o, "ack")
    IN IF ~o.ack THEN b1 ELSE Try(b1, "reply", "support", o, "reply")

\* the early returns without their keyboard strip
StripCase_noStrip(b, m, text, o) == Try(b, "ack", text, o, "ack")

\* the two early returns that end with a best-effort keyboard strip
StripCase(b, m, text, o) ==
    LET b1 == Try(b, "ack", text, o, "ack")
        b2 == Try(b1, "strip", m, o, "edit")
    IN IF ~o.ack THEN b1
       ELSE IF o.edit THEN Render(b2, m, EmptyKeyboard) ELSE b2

\* the context with the rewrite put in the place of its original text
WithGptResult_asOriginal(messageData, gptResult) ==
    [messageData EXCEPT !.originalMessageText = gptResult]

\* the context losing its stored layout to the cancel row when the rewrite arrives
WithGptResult_cancelLayout(messageData, gptResult) ==
    [messageData EXCEPT !.gptGeneratedContent = gptResult,
                        !.keyboard = <<messageData.cancelButton>>]

\* messageData.gptGeneratedContent = gptResult
WithGptResult(messageData, gptResult) ==
    [messageData EXCEPT !.gptGeneratedContent = gptResult]

\* the rewrite case removing the keyboard when the model gave no answer, too
GptCase_stripOnFailure(b, c, m, n, messageData, o) ==
    LET b1 == Try(b, "ack", "processing", o, "ack")
        contentToSend == OrElse(messageData.scrapedMessageContent, messageData.originalMessageText)
        gptModel == b.se[c].currentGptModel
        b2 == Try(b1, "gpt", <<contentToSend, ReadyPrompt, gptModel>>, o, "gpt")
        b3 == Did([b2 EXCEPT !.ms = storeMessageData(b2.ms, n,
                                 WithGptResult(messageData, GptText))],
                  "store", uuidv4(n), TRUE)
        b4 == Try(b3, "send", "GPT Summary Generated:", o, "send")
        b5 == sendActionPrompt(b4, GptText, EmptyString, o)
        b6 == Try(b5, "edit", "processed", o, "edit")
        b7 == Try(b2, "send", "failed", o, "send")
    IN IF ~o.ack THEN CatchReply(b1, o)
       ELSE IF o.gpt
       THEN (IF ~o.send THEN CatchReply(b4, o)
             ELSE IF o.edit THEN Render(b6, m, EmptyKeyboard)
             ELSE CatchReply(b6, o))
       ELSE (IF o.send THEN Render(b7, m, EmptyKeyboard) ELSE CatchReply(b7, o))

GptCase(b, c, m, n, messageData, o) ==
    LET b1 == Try(b, "ack", "processing", o, "ack")
        contentToSend == OrElse(messageData.scrapedMessageContent, messageData.originalMessageText)
        gptModel == b.se[c].currentGptModel
        b2 == Try(b1, "gpt", <<contentToSend, ReadyPrompt, gptModel>>, o, "gpt")
        b3 == Did([b2 EXCEPT !.ms = storeMessageData(b2.ms, n,
                                 WithGptResult(messageData, GptText))],
                  "store", uuidv4(n), TRUE)
        b4 == Try(b3, "send", "GPT Summary Generated:", o, "send")
        b5 == sendActionPrompt(b4, GptText, EmptyString, o)
        b6 == Try(b5, "edit", "processed", o, "edit")
        b7 == Try(b2, "send", "failed", o, "send")
    IN IF ~o.ack THEN CatchReply(b1, o)
       ELSE IF o.gpt
       THEN (IF ~o.send THEN CatchReply(b4, o)
             ELSE IF o.edit THEN Render(b6, m, EmptyKeyboard)
             ELSE CatchReply(b6, o))
       ELSE (IF o.send THEN b7 ELSE CatchReply(b7, o))

\* the publish case cleaning up the context when the publication failed, too
ChnCase_deleteOnFailure(b, m, n, messageData, o) ==
    LET b1 == Try(b, "ack", "sending", o, "ack")
        textToSend == OrElse(messageData.gptGeneratedContent, messageData.originalMessageText)
        b2 == Try(b1, "publish", textToSend, o, "send")
        b3 == [b2 EXCEPT !.pub[n] = Append(@, textToSend)]
        b4 == Try(b3, "edit", "sent", o, "edit")
        b5 == Did([Render(b4, m, EmptyKeyboard) EXCEPT !.ms = deleteMessageData(b4.ms, n)],
                  "delete", uuidv4(n), TRUE)
        failed(bb) == LET b6 == Try([bb EXCEPT !.ms = deleteMessageData(bb.ms, n)],
                                    "send", "failure notice", o, "notice")
                      IN IF o.notice THEN b6 ELSE CatchReply(b6, o)
    IN IF ~o.ack THEN CatchReply(b1, o)
       ELSE IF ~o.send THEN failed(b2)
       ELSE IF ~o.edit THEN failed(b4)
       ELSE b5

\* the publish case preferring the full scraped content to the short form
ChnCase_publishesScraped(b, m, n, messageData, o) ==
    LET b1 == Try(b, "ack", "sending", o, "ack")
        textToSend == OrElse(messageData.gptGeneratedContent,
                             OrElse(messageData.scrapedMessageContent,
                                    messageData.originalMessageText))
        b2 == Try(b1, "publish", textToSend, o, "send")
        b3 == [b2 EXCEPT !.pub[n] = Append(@, textToSend)]
        b4 == Try(b3, "edit", "sent", o, "edit")
        b5 == Did([Render(b4, m, EmptyKeyboard) EXCEPT !.ms = deleteMessageData(b4.ms, n)],
                  "delete", uuidv4(n), TRUE)
        failed(bb) == LET b6 == Try(bb, "send", "failure notice", o, "notice")
                      IN IF o.notice THEN b6 ELSE CatchReply(b6, o)
    IN IF ~o.ack THEN CatchReply(b1, o)
       ELSE IF ~o.send THEN failed(b2)
       ELSE IF ~o.edit THEN failed(b4)
       ELSE b5

ChnCase(b, m, n, messageData, o) ==
    LET b1 == Try(b, "ack", "sending", o, "ack")
        textToSend == OrElse(messageData.gptGeneratedContent, messageData.originalMessageText)
        b2 == Try(b1, "publish", textToSend, o, "send")
        b3 == [b2 EXCEPT !.pub[n] = Append(@, textToSend)]
        b4 == Try(b3, "edit", "sent", o, "edit")
        b5 == Did([Render(b4, m, EmptyKeyboard) EXCEPT !.ms = deleteMessageData(b4.ms, n)],
                  "delete", uuidv4(n), TRUE)
        failed(bb) == LET b6 == Try(bb, "send", "failure notice", o, "notice")
                      IN IF o.notice THEN b6 ELSE CatchReply(b6, o)
    IN IF ~o.ack THEN CatchReply(b1, o)
       ELSE IF ~o.send THEN failed(b2)
       ELSE IF ~o.edit THEN failed(b4)
       ELSE b5

PrmCase(b, c, u, m, n, o) ==
    LET messageStoreId == uuidv4(n)
        b1 == Try(b, "ack", "", o, "ack")
        b2 == Did([b1 EXCEPT !.se[c].messageStoreIdForNewPrompt = messageStoreId,
                             !.h.exit[c] = "none"],
                  "session", messageStoreId, TRUE)
        b3 == Try(b2, "edit", "reply with prompt", o, "edit")
        b4 == Render(b3, m, createCancelKeyboard(messageStoreId))
        entered == ConversationEntry(Did(b4, "enter", messageStoreId, TRUE), c, u, m, o)
    IN IF ~o.ack THEN CatchReply(b1, o)
       ELSE IF ~o.edit THEN CatchReply(b3, o)
       ELSE IF entered.threw THEN CatchReply(entered.b1, o)
       ELSE entered.b1

\* the cancel case rendering the cancel row again
CnpCase_cancelRow(b, c, m, messageData, o) ==
    LET b1 == Try(b, "ack", "cancelled", o, "ack")
        b2 == Try(b1, "restore", messageData.messageId, o, "edit")
        b3 == Render(b2, m, <<messageData.cancelButton>>)
        b4 == Did([b3 EXCEPT !.cv[c] = <<>>,
                             !.h.exit[c] = IF b3.cv[c] # <<>> THEN "cancel" ELSE @],
                  "exit", "", TRUE)
    IN IF ~o.ack THEN CatchReply(b1, o)
       ELSE IF ~o.edit THEN CatchReply(b2, o)
       ELSE b4

CnpCase(b, c, m, messageData, o) ==
    LET b1 == Try(b, "ack", "cancelled", o, "ack")
        b2 == Try(b1, "restore", messageData.messageId, o, "edit")
        b3 == Render(b2, m, messageData.keyboard)
        b4 == Did([b3 EXCEPT !.cv[c] = <<>>,
                             !.h.exit[c] = IF b3.cv[c] # <<>> THEN "cancel" ELSE @],
                  "exit", "", TRUE)
    IN IF ~o.ack THEN CatchReply(b1, o)
       ELSE IF ~o.edit THEN CatchReply(b2, o)
       ELSE b4

DefaultCase(b, o) ==
    LET b1 == Try(b, "ack", "unknown action", o, "ack")
    IN IF o.ack THEN b1 ELSE CatchReply(b1, o)

\* the id check without its test for a missing id
InvalidId_lengthOnly(messageStoreId) ==
    messageStoreId # EmptyString /\ StrLen(messageStoreId) # UuidLength

\* the id check without its length test
InvalidId_noLength(messageStoreId) == messageStoreId = EmptyString

\* !messageStoreId || messageStoreId.length !== 36
InvalidId(messageStoreId) ==
    messageStoreId = EmptyString \/ StrLen(messageStoreId) # UuidLength

buttonClickHandler(b, c, u, m, callbackData, o) ==
    LET parts == Split(callbackData, 2)
        queryPrefix == parts[1]
        dataPart == IF Len(parts) > 1 THEN parts[2] ELSE EmptyString
        messageStoreId == dataPart
    IN IF ~isUserAuthorized(u)
       THEN Try(b, "ack", "unauthorized", o, "ack")
       ELSE IF queryPrefix = <<Lit("gpt")>>
               /\ dataPart \in {<<Lit("4o")>>, <<Lit("3.5t")>>, <<Lit("cancel")>>}
       THEN ModelCase(b, c, m, dataPart, o)
       ELSE IF queryPrefix = <<Lit("start_scraping")>> THEN StartScrapingCase(b, o)
       ELSE IF queryPrefix = <<Lit("support")>> THEN SupportCase(b, o)
       ELSE IF InvalidId(messageStoreId)
       THEN StripCase(b, m, "invalid id", o)
       ELSE LET b0 == Did(b, "get", messageStoreId, TRUE)
            IN IF ~hasMessageData(b.ms, messageStoreId)
               THEN StripCase(b0, m, "not found", o)
               ELSE LET n == KeyOf(messageStoreId)
                        messageData == getMessageData(b.ms, messageStoreId)
                    IN CASE queryPrefix = <<Lit("gpt")>> -> GptCase(b0, c, m, n, messageData, o)
                         [] queryPrefix = <<Lit("chn")>> -> ChnCase(b0, m, n, messageData, o)
                         [] queryPrefix = <<Lit("prm")>> -> PrmCase(b0, c, u, m, n, o)
                         [] queryPrefix = <<Lit("cnp")>> -> CnpCase(b0, c, m, messageData, o)
                         [] OTHER -> DefaultCase(b0, o)

\* a restore that renders the cancel row again
RestoreKeyboard_cancelRow(b, msg, messageData, o) ==
    LET b5 == Try(b, "edit", "failed", o, "e2")
        b6 == Try(b5, "editMarkup", messageData.messageId, o, "e3")
    IN IF ~o.e2 THEN b5
       ELSE IF o.e3 THEN Render(b6, msg, <<messageData.cancelButton>>)
       ELSE b6

\* the try block that follows the failure reply: the prompt message is edited to
\* "Failed. Choose an option:" and then given messageData.keyboard; errors are ignored
RestoreKeyboard(b, msg, messageData, o) ==
    LET b5 == Try(b, "edit", "failed", o, "e2")
        b6 == Try(b5, "editMarkup", messageData.messageId, o, "e3")
    IN IF ~o.e2 THEN b5
       ELSE IF o.e3 THEN Render(b6, msg, messageData.keyboard)
       ELSE b6

\* newPromptConversation from the text message that resolves waitFor(":text") to its end
ConversationResume(b, c, newPrompt, o) ==
    LET inst == Head(b.cv[c])
        messageData == inst.data
        left(bb, how) == [bb EXCEPT !.cv[c] = Tail(@), !.h.exit[c] = how]
        b1 == Try(b, "reply", "processing", o, "reply")
        contentToSend == OrElse(messageData.scrapedMessageContent, messageData.originalMessageText)
        gptModel == b.se[c].currentGptModel
        b2 == Try(b1, "gpt", <<contentToSend, newPrompt, gptModel>>, o, "gpt")
        b3 == sendActionPrompt(b2, GptText, EmptyString, o)
        b4 == Try(b2, "reply", "failed", o, "notice")
        b6 == RestoreKeyboard(b4, inst.msg, messageData, o)
        cleanup(bb) == Did([bb EXCEPT !.se[c].messageStoreIdForNewPrompt = EmptyString],
                           "session", EmptyString, TRUE)
    IN IF ~o.reply THEN left(b1, "threw")
       ELSE IF o.gpt
       THEN left(cleanup([b3 EXCEPT !.h.rewritten = @ \cup {inst.tok}]), "rewritten")
       ELSE IF ~o.notice THEN left(b4, "threw")
       ELSE left(cleanup(b6), "rewrite failed")

\* a text that the waiting conversation takes and that is passed on to the handler too
handleNewMessages_alsoIngests(b, c, u, text, o) ==
    IF b.cv[c] # <<>>
    THEN LET b1 == ConversationResume(b, c, text, o)
         IN IF isUserAuthorized(u) THEN sendActionPrompt(b1, text, EmptyString, o) ELSE b1
    ELSE IF c = PrivateChat /\ ~isUserAuthorized(u)
    THEN Try(b, "reply", "not authorized", o, "reply")
    ELSE IF c = EditorsGroup \/ (c = PrivateChat /\ isUserAuthorized(u))
    THEN (IF u = ListenerUser THEN sendActionPrompt(b, text, EmptyString, o)
          ELSE IF isUserAuthorized(u) THEN sendActionPrompt(b, text, EmptyString, o)
          ELSE b)
    ELSE b

\* bot.on(":text"): the conversation middleware, then authMiddleware, then handleNewMessages
handleNewMessages(b, c, u, text, o) ==
    IF b.cv[c] # <<>> THEN ConversationResume(b, c, text, o)
    ELSE IF c = PrivateChat /\ ~isUserAuthorized(u)
    THEN Try(b, "reply", "not authorized", o, "reply")
    ELSE IF c = EditorsGroup \/ (c = PrivateChat /\ isUserAuthorized(u))
    THEN (IF u = ListenerUser THEN sendActionPrompt(b, text, EmptyString, o)
          ELSE IF isUserAuthorized(u) THEN sendActionPrompt(b, text, EmptyString, o)
          ELSE b)
    ELSE b

-----------------------------------------------------------------------------
(* scraper.ts *)

Articles == {[title |-> "t1", link |-> "l1"]}
Summaries == {"s1", "s2"}

\* what scrapeArticleContent(link) can return to run p: nothing, the article's text as
\* first published, or (to a run after the initial one) the text the site changed it to
Contents(p) == IF p = 1 THEN {"", "s1"} ELSE {""} \cup Summaries
Blank == [title |-> "", link |-> ""]

linkOnlyMessage(a) == <<Lit("Scraped News:\n"), Lit(a.title), Lit("\nLink: "), Lit(a.link)>>
tempFullIdentifier(a) == <<Lit(a.title), Lit("\nLink:"), Lit(a.link)>>
fullFormattedMessage(a, summary) ==
    <<Lit(a.title), Lit("\n\n"), Lit(summary), Lit("\n\nLink: "), Lit(a.link)>>

NewsArticle(a, summary, full) ==
    [title |-> a.title, link |-> a.link, summary |-> summary,
     fullFormattedMessage |-> full, linkOnlyMessage |-> linkOnlyMessage(a)]

Fingerprints == {fullFormattedMessage(a, s) : a \in Articles, s \in Summaries}

Procs == 1..(1 + MaxScheduled + MaxAdhoc)
\* the transport's answers to api.sendMessage: 200, or the error_code of the
\* GrammyError it rejects with (a rate limit)
SendCodes == {200, 429}

\* one runScraper() call: `left` counts the article elements not yet examined, `news`
\* is the item of the element in hand, `tok` its context; `calls` counts the
\* api.sendMessage calls made for the message in hand and `err` is the error_code of
\* the one that was rejected; `end` tells how the last run of this slot finished
Idle == [pc |-> "idle", left |-> 0, news |-> NewsArticle(Blank, "", EmptyString),
         tok |-> NoToken, calls |-> 0, err |-> 0, end |-> "none"]

\* a `continue` that ends the whole run
SkipArticle_abort(st) == [Idle EXCEPT !.end = "done"]

\* `continue`: on to the next article element
SkipArticle(st) == [st EXCEPT !.pc = "loop", !.left = @ - 1]
Running(p) == scr[p].pc # "idle"

Started == nCycles.boot + nCycles.scheduled + nCycles.adhoc

\* index.ts main(): `await runScraper()` ends before the scheduler and the bot start
Booted == nCycles.boot = 1 /\ ~Running(1)

Bump(f, k) == [f EXCEPT ![k] = @ + 1]

\* runScraper() is called
Launch(procs) ==
    [procs EXCEPT ![Started + 1] = [Idle EXCEPT !.pc = "home"]]

\* index.ts main(): the initial run
BootScrape ==
    /\ nCycles.boot = 0
    /\ scr' = Launch(scr)
    /\ nCycles' = [nCycles EXCEPT !.boot = 1]
    /\ UNCHANGED <<messageStore, issued, newsList, session, convs, kbd, published,
                   itemSent, delivered, overlapped, last, hist, nEvents, snd>>

\* startScrapingScheduler(): setInterval(runScraper, ...) fires
ScheduledScrape ==
    /\ Booted
    /\ nCycles.scheduled < MaxScheduled
    /\ scr' = Launch(scr)
    /\ nCycles' = [nCycles EXCEPT !.scheduled = @ + 1]
    /\ overlapped' = (overlapped \/ \E q \in Procs : Running(q))
    /\ UNCHANGED <<messageStore, issued, newsList, session, convs, kbd, published,
                   itemSent, delivered, last, hist, nEvents, snd>>

\* axios.get(homeUrl) resolves: failure or a page with `k` article elements
FetchHome(p) ==
    /\ scr[p].pc = "home"
    /\ \E ok \in BOOLEAN, k \in 0..MaxFeed :
          scr' = [scr EXCEPT ![p] = IF ok THEN [@ EXCEPT !.pc = "loop", !.left = k]
                                    ELSE [Idle EXCEPT !.end = "home failed"]]
    /\ UNCHANGED <<messageStore, issued, newsList, session, convs, kbd, published,
                   itemSent, delivered, overlapped, last, hist, nEvents, nCycles, snd>>

\* one turn of the for loop up to `await scrapeArticleContent(link)`
NextArticle(p) ==
    /\ scr[p].pc = "loop"
    /\ IF scr[p].left = 0
       THEN scr' = [scr EXCEPT ![p] = [Idle EXCEPT !.end = "done"]]
       ELSE \E a \in Articles \cup {Blank} :
               LET news == NewsArticle(a, "", tempFullIdentifier(a))
               IN IF a.title = "" \/ a.link = "" \/ hasNewsBeenSent(newsList, news)
                  THEN scr' = [scr EXCEPT ![p] = SkipArticle([@ EXCEPT !.news = news])]
                  ELSE scr' = [scr EXCEPT ![p].pc = "content", ![p].news = news]
    /\ UNCHANGED <<messageStore, issued, newsList, session, convs, kbd, published,
                   itemSent, delivered, overlapped, last, hist, nEvents, nCycles, snd>>

\* scrapeArticleContent resolves; the item is completed, checked again, stored, and sent
ArticleContent(p) ==
    /\ scr[p].pc = "content"
    /\ \E summary \in Contents(p) :
          LET a == [title |-> scr[p].news.title, link |-> scr[p].news.link]
              completeNewsItem == NewsArticle(a, summary, fullFormattedMessage(a, summary))
              n == FreshToken(issued, messageStore)
              messageStoreId == uuidv4(n)
          IN IF summary = "" \/ hasNewsBeenSent(newsList, completeNewsItem)
             THEN /\ scr' = [scr EXCEPT ![p] = SkipArticle([@ EXCEPT !.news = completeNewsItem])]
                  /\ UNCHANGED <<messageStore, issued>>
             ELSE /\ issued < MaxTokens
                  /\ issued' = Max(issued, n)
                  /\ messageStore' = storeMessageData(messageStore, n,
                         MessageData(messageStoreId, completeNewsItem.linkOnlyMessage,
                                     completeNewsItem.fullFormattedMessage))
                  /\ scr' = [scr EXCEPT ![p].pc = "send1", ![p].news = completeNewsItem,
                                        ![p].tok = n]
    /\ UNCHANGED <<newsList, session, convs, kbd, published,
                   itemSent, delivered, overlapped, last, hist, nEvents, nCycles, snd>>

\* bot.api.sendMessage(editorsGroupId, linkOnlyMessage) resolves
ItemMessageSent(p) ==
    /\ scr[p].pc = "send1"
    /\ \E code \in SendCodes :
          IF code = 200
          THEN /\ itemSent' = Bump(itemSent, scr[p].news.fullFormattedMessage)
               /\ scr' = [scr EXCEPT ![p].pc = "send2", ![p].calls = 1]
          ELSE /\ UNCHANGED itemSent
               /\ scr' = [scr EXCEPT ![p].pc = "pause", ![p].calls = 1, ![p].err = code]
    /\ UNCHANGED <<messageStore, issued, newsList, session, convs, kbd, published,
                   delivered, overlapped, last, hist, nEvents, nCycles, snd>>

\* the news list updated whatever the result of the send
MarkSent_always(list, news, ok) == addSentNews(list, news)

\* the second newsList update of the try block, as a function of the send result
MarkSent(list, news, ok) == IF ok THEN addSentNews(list, news) ELSE list

\* bot.api.sendMessage(editorsGroupId, prompt, keyboard) resolves; addSentNews, or the catch
KeyboardSent(p) ==
    /\ scr[p].pc = "send2"
    /\ \E code \in SendCodes :
          LET ok == code = 200
          IN /\ newsList' = MarkSent(newsList, scr[p].news, ok)
             /\ IF ok
                THEN /\ kbd' = [kbd EXCEPT ![scr[p].tok] =
                                  [sent |-> TRUE, layout |-> createMainKeyboard(uuidv4(scr[p].tok))]]
                     /\ delivered' = Bump(delivered, scr[p].news.fullFormattedMessage)
                ELSE UNCHANGED <<kbd, delivered>>
             /\ scr' = [scr EXCEPT ![p].pc = "pause", ![p].calls = 1,
                                   ![p].err = IF ok THEN 0 ELSE code]
    /\ UNCHANGED <<messageStore, issued, session, convs, published,
                   itemSent, overlapped, last, hist, nEvents, nCycles, snd>>

\* the 2 second delay that follows the sends of an item elapses
ItemDelayElapsed(p) ==
    /\ scr[p].pc = "pause"
    /\ scr' = [scr EXCEPT ![p] = SkipArticle([@ EXCEPT !.calls = 0, !.err = 0])]
    /\ UNCHANGED <<messageStore, issued, newsList, session, convs, kbd, published,
                   itemSent, delivered, overlapped, last, hist, nEvents, nCycles, snd>>

-----------------------------------------------------------------------------
(* Inbound updates *)

ContextActions == {"gpt", "chn", "prm", "cnp"}

\* payloads of the keyboards rendered for token n, and an unknown action carrying it
TokenPayloads(n) == {<<Lit(a), Colon>> \o uuidv4(n) : a \in ContextActions \cup {"xyz"}}

\* payloads of the /gpt and /start keyboards
LiteralPayloads ==
    {<<Lit("gpt"), Colon, Lit(x)>> : x \in {"4o", "3.5t", "cancel"}}
    \cup {<<Lit("start_scraping")>>, <<Lit("support")>>}

\* payloads no keyboard builder produces
ForeignPayloads ==
    {<<Lit("gpt")>>, <<Lit("xyz")>>, <<Lit("chn"), Colon>>,
     <<Lit("chn"), Colon, Filler(8)>>, <<Lit("chn"), Colon, Filler(UuidLength)>>,
     <<Lit("xyz"), Colon, Filler(UuidLength)>>,
     <<Lit("chn"), Colon, Uuid(1), Colon, Lit("xyz")>>}

Texts == {<<Lit("some news")>>}

\* the clicks that can arrive: <<chat, user, message clicked, payload>>.  A token's
\* payloads come from its own prompt message (possibly from an earlier rendering of it).
Clicks ==
    {<<EditorsGroup, AllowedUser, n, d>> : n \in {t \in Tokens : kbd[t].sent},
                                           d \in UNION {TokenPayloads(t) : t \in Tokens}}
    \cup {<<c, AllowedUser, NoMessage, d>> : c \in Chats, d \in LiteralPayloads}
    \cup {<<EditorsGroup, AllowedUser, NoMessage, d>> : d \in ForeignPayloads}
    \cup {<<EditorsGroup, Stranger, NoMessage, d>> :
             d \in {<<Lit("start_scraping")>>, <<Lit("gpt")>>, <<Lit("chn"), Colon, Filler(UuidLength)>>}}

RealClicks == {k \in Clicks : k[3] = NoMessage \/ k[4] \in TokenPayloads(k[3])}

\* the handler grammY runs for an update
Handle(ev, o) ==
    IF ev.kind = "click"
    THEN buttonClickHandler(Cur, ev.chat, ev.user, ev.msg, ev.data, o)
    ELSE handleNewMessages(Cur, ev.chat, ev.user, ev.data, o)

\* the handler's distinct runs on `ev`, numbered, one for each set of failing calls: a
\* call can only fail in a run that makes it
RECURSIVE Failures(_, _, _, _)
Failures(ev, todo, done, runs) ==
    IF todo = {} THEN runs
    ELSE LET F == CHOOSE x \in todo : TRUE
             r == Handle(ev, Outcome(F))
         IN IF ~(F \subseteq r.used) THEN Failures(ev, todo \ {F}, done, runs)
            ELSE Failures(ev, (todo \ {F}) \cup ({F \cup {f} : f \in r.used \ F} \ done),
                          done \cup {F}, runs \cup {<<Cardinality(done), r>>})

Commit(r) ==
    /\ r.iss <= MaxTokens
    /\ \A c \in Chats : Len(r.cv[c]) <= MaxConvs
    /\ r.spawn > 0 => nCycles.adhoc < MaxAdhoc
    /\ messageStore' = r.ms
    /\ issued' = r.iss
    /\ session' = r.se
    /\ convs' = r.cv
    /\ kbd' = r.kb
    /\ published' = r.pub
    /\ hist' = r.h
    /\ scr' = IF r.spawn > 0 THEN Launch(scr) ELSE scr
    /\ nCycles' = [nCycles EXCEPT !.adhoc = @ + r.spawn]
    /\ overlapped' = (overlapped \/ (r.spawn > 0 /\ \E q \in Procs : Running(q)))
    /\ nEvents' = nEvents + 1
    /\ UNCHANGED <<newsList, itemSent, delivered, snd>>

\* One update of a run is observed: `last` keeps it and the calls its handler made,
\* and the run is followed no further than that update.
Update(ev) ==
    /\ last.kind = "none"
    /\ \E run \in Failures(ev, {{}}, {}, {}), observe \in BOOLEAN :
          LET r == run[2]
          IN /\ Commit(r)
             /\ last' = IF observe
                        THEN [kind |-> ev.kind, chat |-> ev.chat, user |-> ev.user,
                              data |-> ev.data,
                              fx |-> [i \in 1..Len(r.fx) |-> Label(r.fx[i])]]
                        ELSE last

\* bot.on("callback_query:data", buttonClickHandler)
ButtonClick ==
    /\ Booted
    /\ nEvents < MaxEvents
    /\ \E k \in RealClicks :
          Update([kind |-> "click", chat |-> k[1], user |-> k[2], msg |-> k[3], data |-> k[4]])

\* bot.on(":text", handleNewMessages)
TextMessage ==
    /\ Booted
    /\ nEvents < MaxEvents
    /\ \E c \in Chats, u \in Users, text \in Texts :
          Update([kind |-> "text", chat |-> c, user |-> u, msg |-> NoMessage, data |-> text])

\* the review of the delivered items by one editor: clicks on the keyboards of the
\* items' prompt messages
ReviewClick ==
    /\ Booted
    /\ nEvents < MaxReviewEvents
    /\ \E k \in {x \in RealClicks : x[3] # NoMessage} :
          Update([kind |-> "click", chat |-> k[1], user |-> k[2], msg |-> k[3], data |-> k[4]])

\* ... and that editor's text messages in the editors group
ReviewText ==
    /\ Booted
    /\ nEvents < MaxReviewEvents
    /\ \E text \in Texts :
          Update([kind |-> "text", chat |-> EditorsGroup, user |-> AllowedUser,
                  msg |-> NoMessage, data |-> text])

-----------------------------------------------------------------------------
(* utils.ts *)

InitialDelays == {DefaultInitialDelay, 3 * DefaultInitialDelay}

RECURSIVE Pow2(_)
Pow2(k) == IF k = 0 THEN 1 ELSE 2 * Pow2(k - 1)

\* an argument the caller leaves out
Undefined == -1

\* a parameter with a default value: `maxRetries = 3`, `initialDelay = 1000`
DefaultTo(arg, def) == IF arg = Undefined THEN def ELSE arg

\* `args` are the last two arguments as the caller passed them, `codes` the outcome
\* of each api.sendMessage call in order (200 when it resolved, else the error_code)
SendOff == [pc |-> "off", args |-> <<>>, maxRetries |-> 0, initialDelay |-> 0,
            attempts |-> 0, currentDelay |-> 0, calls |-> 0, codes |-> <<>>,
            retryAfters |-> <<>>, waits |-> <<>>, error |-> "none"]

\* a loop that allows one attempt more than maxRetries
LoopHead_oneMore(st) ==
    IF st.attempts <= st.maxRetries THEN [st EXCEPT !.pc = "attempt"]
    ELSE [st EXCEPT !.pc = "threw", !.error = "exhausted"]

\* the loop condition `attempts < maxRetries`, and the throw that follows the loop
LoopHead(st) ==
    IF st.attempts < st.maxRetries THEN [st EXCEPT !.pc = "attempt"]
    ELSE [st EXCEPT !.pc = "threw", !.error = "exhausted"]

\* a wait that ignores the server's retry_after
waitTime_backoffOnly(retry_after, currentDelay) == currentDelay

\* waitTime = Math.max(retryAfter, currentDelay)
waitTime(retry_after, currentDelay) == Max(retry_after * 1000, currentDelay)

\* a delay that grows by a fixed step
NextDelay_linear(currentDelay) == currentDelay + DefaultInitialDelay

\* currentDelay *= 2
NextDelay(currentDelay) == currentDelay * 2

\* sendMessageWithRetry(bot, chatId, text, options, maxRetries, initialDelay) is called
SendCalled ==
    /\ snd.pc = "off"
    /\ \E maxRetries \in {Undefined} \cup 0..MaxSendRetries,
          initialDelay \in {Undefined} \cup InitialDelays :
          snd' = LoopHead([SendOff EXCEPT
                      !.args = <<maxRetries, initialDelay>>,
                      !.maxRetries = DefaultTo(maxRetries, DefaultMaxRetries),
                      !.initialDelay = DefaultTo(initialDelay, DefaultInitialDelay),
                      !.currentDelay = DefaultTo(initialDelay, DefaultInitialDelay)])
    /\ UNCHANGED botVars

\* a catch block that waits and retries after every error
Caught_retryAll(st, code, r) ==
    [st EXCEPT !.attempts = @ + 1,
               !.pc = "delay",
               !.retryAfters = Append(@, r),
               !.waits = Append(@, waitTime(r, st.currentDelay))]

\* a catch block that waits and retries after every rate limit, with or without a
\* retry_after
Caught_retryEvery429(st, code, r) ==
    LET st1 == [st EXCEPT !.attempts = @ + 1]
    IN IF code = 429
       THEN [st1 EXCEPT !.pc = "delay",
                        !.retryAfters = Append(@, r),
                        !.waits = Append(@, waitTime(r, st.currentDelay))]
       ELSE [st1 EXCEPT !.pc = "threw", !.error = IF code = 429 THEN "429" ELSE "other"]

\* the catch block, for an error with error_code `code` and parameters.retry_after `r`
\* (0 when absent)
Caught(st, code, r) ==
    LET st1 == [st EXCEPT !.attempts = @ + 1]
    IN IF code = 429 /\ r # 0
       THEN [st1 EXCEPT !.pc = "delay",
                        !.retryAfters = Append(@, r),
                        !.waits = Append(@, waitTime(r, st.currentDelay))]
       ELSE IF st1.attempts >= st1.maxRetries
       THEN [st1 EXCEPT !.pc = "threw", !.error = IF code = 429 THEN "429" ELSE "other"]
       ELSE [st1 EXCEPT !.pc = "threw", !.error = IF code = 429 THEN "429" ELSE "other"]

\* api.sendMessage resolves or rejects
SendAttempt ==
    /\ snd.pc = "attempt"
    /\ \/ snd' = [snd EXCEPT !.pc = "returned", !.calls = @ + 1,
                               !.codes = Append(@, 200)]
       \/ \E code \in {429, 400}, r \in 0..MaxRetryAfter :
             /\ code = 400 => r = 0
             /\ snd' = Caught([snd EXCEPT !.calls = @ + 1,
                                          !.codes = Append(@, code)], code, r)
    /\ UNCHANGED botVars

\* delay(waitTime) elapses
SendDelayElapsed ==
    /\ snd.pc = "delay"
    /\ snd' = LoopHead([snd EXCEPT !.currentDelay = NextDelay(@)])
    /\ UNCHANGED botVars

-----------------------------------------------------------------------------

Init ==
    /\ messageStore = <<>>
    /\ issued = 0
    /\ newsList = {}
    /\ session = [c \in Chats |-> [currentGptModel |-> DefaultModel,
                                   messageStoreIdForNewPrompt |-> EmptyString]]
    /\ convs = [c \in Chats |-> <<>>]
    /\ kbd = [t \in Tokens |-> [sent |-> FALSE, layout |-> EmptyKeyboard]]
    /\ scr = [p \in Procs |-> Idle]
    /\ published = [t \in Tokens |-> <<>>]
    /\ itemSent = [f \in Fingerprints |-> 0]
    /\ delivered = [f \in Fingerprints |-> 0]
    /\ overlapped = FALSE
    /\ last = [kind |-> "none", chat |-> EditorsGroup, user |-> AllowedUser,
               data |-> EmptyString, fx |-> <<>>]
    /\ hist = [exit |-> [c \in Chats |-> "none"], rewritten |-> {},
               selected |-> [c \in Chats |-> "none"]]
    /\ nEvents = 0
    /\ nCycles = [boot |-> 0, scheduled |-> 0, adhoc |-> 0]
    /\ snd = SendOff

\* one step of the runScraper() invocation p
ScrapingOf(p) ==
    \/ FetchHome(p)
    \/ NextArticle(p)
    \/ ArticleContent(p)
    \/ ItemMessageSent(p)
    \/ KeyboardSent(p)
    \/ ItemDelayElapsed(p)

Scraping == \E p \in Procs : ScrapingOf(p)

\* the steps of the initial run, which main() awaits
BootScraping == ScrapingOf(1)

\* the bot's handlers after the initial run.  A run started from the start_scraping
\* button stays at its first await here; the steps of a run are followed in SpecScraper.
Next ==
    \/ BootScrape
    \/ BootScraping
    \/ ButtonClick
    \/ TextMessage

Spec == Init /\ [][Next]_vars

\* one editor reviewing the items the initial run delivered, followed further
NextReview ==
    \/ BootScrape
    \/ BootScraping
    \/ ReviewClick
    \/ ReviewText

SpecReview == Init /\ [][NextReview]_vars

\* the scraper on its own: the initial run and the scheduled ones
NextScraper ==
    \/ BootScrape
    \/ ScheduledScrape
    \/ Scraping

SpecScraper == Init /\ [][NextScraper]_vars

\* an authorized click on the /start keyboard's start_scraping button
StartScrapingClick ==
    /\ Booted
    /\ nEvents < MaxEvents
    /\ Update([kind |-> "click", chat |-> EditorsGroup, user |-> AllowedUser,
               msg |-> NoMessage, data |-> <<Lit("start_scraping")>>])

\* the scraper with a run started from the button next to the scheduled ones
NextOverlap ==
    \/ BootScrape
    \/ ScheduledScrape
    \/ StartScrapingClick
    \/ Scraping

SpecOverlap == Init /\ [][NextOverlap]_vars

\* one call of the retrying sender
NextSend ==
    \/ SendCalled
    \/ SendAttempt
    \/ SendDelayElapsed

SpecSend == Init /\ [][NextSend]_vars

\* a pending api.sendMessage settles and a pending delay() timer fires
SpecSendFair == SpecSend /\ WF_vars(NextSend)

-----------------------------------------------------------------------------
(* Properties of the review workflow *)

\* C1 (as stated): for every token at most one message is ever sent to the news
\* channel, whatever the sequence of clicks.
C1_PublishedAtMostOnce ==
    \A t \in Tokens : Len(published[t]) <= 1

\* C2 (as stated): while scrape cycles run one after another, the link-only message
\* of an item with a given full-text fingerprint is sent to the editors group at
\* most once.
C2_ItemMessageSentOnce ==
    ~overlapped => \A f \in Fingerprints : itemSent[f] <= 1

\* C2 (amended): while scrape cycles run one after another, an item with a given
\* full-text fingerprint is delivered completely (its message and its keyboard
\* prompt) to the editors group at most once.
C2_DeliveredOnce ==
    ~overlapped => \A f \in Fingerprints : delivered[f] <= 1

\* a later cycle has scraped an item that was delivered before and has skipped it
C2_Witness ==
    \E p \in Procs, f \in Fingerprints :
        /\ p > 1
        /\ ~overlapped
        /\ scr[p].pc = "loop"
        /\ scr[p].news.fullFormattedMessage = f
        /\ scr[p].tok = NoToken
        /\ delivered[f] = 1

\* C3: a fingerprint is in the news list only if the item's message and its keyboard
\* prompt were both sent successfully before; a failed delivery adds nothing, so the
\* item stays eligible for a later cycle.
C3_MarkedOnlyAfterDelivery ==
    \A f \in Fingerprints :
        f \in newsList => (itemSent[f] >= 1 /\ delivered[f] >= 1)

\* a later cycle sends an item again whose first delivery failed
C3_Witness ==
    \E p \in Procs :
        /\ scr[p].pc = "send1"
        /\ scr[p].tok = 2
        /\ 1 \in DOMAIN messageStore
        /\ messageStore[1].scrapedMessageContent = scr[p].news.fullFormattedMessage
        /\ scr[p].news.fullFormattedMessage \notin newsList
        /\ delivered[scr[p].news.fullFormattedMessage] = 0

\* C4: every click, and so every click with a malformed payload (no delimiter, data
\* segment of the wrong length, unknown action), is answered by answerCallbackQuery,
\* and getMessageData is only called with an id of 36 characters.
C4_MalformedAcknowledged ==
    last.kind = "click" =>
        /\ \E i \in 1..Len(last.fx) : last.fx[i].op = "ack"
        /\ \A i \in 1..Len(last.fx) :
              last.fx[i].op = "get" => StrLen(last.fx[i].id) = UuidLength

\* a payload whose data segment has 8 characters is answered "invalid id", no store read
C4_Witness ==
    /\ last.kind = "click"
    /\ last.data = <<Lit("chn"), Colon, Filler(8)>>
    /\ \E i \in 1..Len(last.fx) : last.fx[i].op = "ack" /\ last.fx[i].text = "invalid id"
    /\ \A i \in 1..Len(last.fx) : last.fx[i].op # "get"

\* C5: a click by an authorized user on gpt / chn / prm / cnp with a 36 character id
\* that messageStore does not hold reads the store, answers "not found", and when
\* that answer went through tries to strip the keyboard and does nothing else,
\* whether the strip succeeds or not; messageStore, newsList, the session, the
\* conversations and the published messages are left as they were.
C5_MissingContextShortCircuits ==
    [][(/\ last.kind = "none"
        /\ last'.kind = "click"
        /\ isUserAuthorized(last'.user)
        /\ LET parts == Split(last'.data, 2)
           IN /\ Len(parts) > 1
              /\ parts[1] \in {<<Lit(a)>> : a \in ContextActions}
              /\ StrLen(parts[2]) = UuidLength
              /\ ~hasMessageData(messageStore, parts[2]))
       => (/\ messageStore' = messageStore
           /\ newsList' = newsList
           /\ session' = session
           /\ convs' = convs
           /\ published' = published
           /\ issued' = issued
           /\ Len(last'.fx) \in {2, 3}
           /\ last'.fx[1].op = "get"
           /\ last'.fx[2].op = "ack" /\ last'.fx[2].text = "not found"
           /\ last'.fx[2].ok => (Len(last'.fx) = 3 /\ last'.fx[3].op = "strip")
           /\ ~last'.fx[2].ok => Len(last'.fx) = 2)]_vars

\* a second publish click on a published (deleted) token: "not found", and the strip fails
C5_Witness ==
    /\ last.kind = "click"
    /\ last.data = <<Lit("chn"), Colon>> \o uuidv4(1)
    /\ published[1] # <<>>
    /\ 1 \notin DOMAIN messageStore
    /\ Len(last.fx) = 3
    /\ last.fx[2].text = "not found"
    /\ last.fx[3].op = "strip" /\ ~last.fx[3].ok

\* C6: the handler of a click calls answerCallbackQuery exactly once, and nothing
\* but the read of messageStore precedes that call.
C6_OneAcknowledgementFirst ==
    last.kind = "click" =>
        /\ Cardinality({i \in 1..Len(last.fx) : last.fx[i].op = "ack"}) = 1
        /\ \A i, j \in 1..Len(last.fx) :
              (i < j /\ last.fx[j].op = "ack") => last.fx[i].op = "get"

\* a publish click: the acknowledgement, then the send to the channel
C6_Witness ==
    /\ last.kind = "click"
    /\ \E i, j \in 1..Len(last.fx) :
          /\ i < j
          /\ last.fx[i].op = "ack"
          /\ last.fx[j].op = "publish" /\ last.fx[j].ok

\* C7: when the cancel button of a token's prompt is clicked while a conversation
\* on that token is waiting, and the restoring edit goes through, the keyboard then
\* rendered is the `keyboard` stored for the token, the one every waiting
\* conversation on it read at its start, and the one createMainKeyboard built at
\* creation.
C7_CancelRestoresLayout ==
    [][\A t \in Tokens :
         (/\ last.kind = "none"
          /\ last'.kind = "click"
          /\ last'.data = <<Lit("cnp"), Colon>> \o uuidv4(t)
          /\ \E i \in 1..Len(last'.fx) : last'.fx[i].op = "restore" /\ last'.fx[i].ok
          /\ \E i \in 1..Len(convs[EditorsGroup]) : convs[EditorsGroup][i].tok = t)
         => (/\ kbd'[t].layout = messageStore[t].keyboard
             /\ kbd'[t].layout = createMainKeyboard(uuidv4(t))
             /\ \A i \in 1..Len(convs[EditorsGroup]) :
                   convs[EditorsGroup][i].tok = t
                   => kbd'[t].layout = convs[EditorsGroup][i].data.keyboard)]_vars

\* the cancel button ended a conversation and the main keyboard is back
C7_Witness ==
    /\ last.kind = "click"
    /\ last.data = <<Lit("cnp"), Colon>> \o uuidv4(1)
    /\ \E i \in 1..Len(last.fx) : last.fx[i].op = "restore" /\ last.fx[i].ok
    /\ hist.exit[EditorsGroup] = "cancel"
    /\ kbd[1].layout = createMainKeyboard(uuidv4(1))

\* C8 (as stated): once the conversations of a chat have ended, by a successful
\* rewrite, a failed rewrite, the cancel button or a context missing at entry, the
\* chat's session.messageStoreIdForNewPrompt is empty.
C8_SlotClearedOnExit ==
    \A c \in Chats :
        (convs[c] = <<>> /\ hist.exit[c] \in {"rewritten", "rewrite failed", "cancel", "missing"})
        => session[c].messageStoreIdForNewPrompt = EmptyString

\* C9 (as stated): after an item was rewritten through a custom prompt, no click
\* carrying its token performs its action: no summary is requested, nothing is
\* published, no conversation is entered, no keyboard is restored.
C9_RewrittenItemInert ==
    (/\ last.kind = "click"
     /\ Len(Split(last.data, 2)) > 1
     /\ KeyOf(Split(last.data, 2)[2]) \in hist.rewritten)
    => \A i \in 1..Len(last.fx) :
          ~(last.fx[i].ok /\ last.fx[i].op \in {"gpt", "publish", "enter", "restore"})

\* C10: the k-th wait of one call equals the larger of the k-th retry_after (in
\* milliseconds) and initialDelay * 2^(k-1).
C10_WaitIsMaxOfRetryAfterAndBackoff ==
    \A k \in 1..Len(snd.waits) :
        snd.waits[k] = Max(snd.retryAfters[k] * 1000, snd.initialDelay * Pow2(k - 1))

\* three rate-limited attempts: the first wait is the server's, the third the backoff
C10_Witness ==
    /\ Len(snd.waits) = 3
    /\ snd.waits[1] = snd.retryAfters[1] * 1000
    /\ snd.waits[1] > snd.initialDelay
    /\ snd.waits[3] = 4 * snd.initialDelay
    /\ snd.waits[3] > snd.retryAfters[3] * 1000

\* C11 (as stated): with initialDelay = 1 s and rate-limit responses that carry
\* retry_after = 5 s, the first wait is at least 5 s and the second wait is at
\* least double the first actual wait (at least 10 s).
C11_SecondWaitDoublesFirstWait ==
    (/\ snd.initialDelay = DefaultInitialDelay
     /\ Len(snd.waits) >= 2
     /\ snd.retryAfters[1] = 5
     /\ snd.retryAfters[2] = 5)
    => /\ snd.waits[1] >= 5000
       /\ snd.waits[2] >= 2 * snd.waits[1]

\* C11 (amended): with initialDelay = 1 s and a first rate-limit response that
\* carries retry_after = 5 s, the first wait is exactly 5 s; the backoff that
\* enters the second wait is double the initial delay (2 s), not double the
\* first wait, so the second wait is the larger of the second retry_after and
\* 2 s: 5 s again when the server repeats retry_after = 5 s.
C11_SecondWaitDoublesInitialDelay ==
    (/\ snd.initialDelay = DefaultInitialDelay
     /\ Len(snd.waits) >= 1
     /\ snd.retryAfters[1] = 5)
    => /\ snd.waits[1] = 5000
       /\ Len(snd.waits) >= 2 =>
             /\ snd.waits[2] = Max(snd.retryAfters[2] * 1000, 2 * DefaultInitialDelay)
             /\ snd.retryAfters[2] = 5 => snd.waits[2] = 5000

C11_Witness ==
    /\ snd.initialDelay = DefaultInitialDelay
    /\ Len(snd.waits) = 2
    /\ snd.retryAfters = <<5, 5>>
    /\ snd.waits = <<5000, 5000>>

\* C12: an attempt that fails with an error other than a rate limit ends the call
\* at once with that error: it is the last transport call, no wait follows it,
\* whatever the number of attempts left.
C12_OtherErrorFailsImmediately ==
    \A k \in 1..Len(snd.codes) :
        snd.codes[k] = 400 =>
            /\ k = Len(snd.codes)
            /\ snd.calls = k
            /\ snd.pc = "threw"
            /\ snd.error = "other"
            /\ Len(snd.waits) = k - 1

C12_Witness ==
    /\ snd.maxRetries = 3
    /\ snd.codes = <<429, 400>>
    /\ snd.attempts = 2
    /\ snd.pc = "threw"
    /\ Len(snd.waits) = 1

\* the call is over
SendOver == snd.pc \in {"returned", "threw"}

\* C13: a call always ends; it makes at most maxRetries transport calls (3 when
\* the argument is left out, with a first backoff of 1000 ms); it returns exactly
\* when an attempt succeeds, which is then the last call and follows only rate
\* limited ones; and when maxRetries attempts were all rate limited it ends by
\* throwing.
C13_BoundedAttemptsAndTermination ==
    /\ [](/\ snd.calls <= snd.maxRetries
          /\ snd.pc # "off" =>
                /\ snd.args[1] = Undefined => snd.maxRetries = 3
                /\ snd.args[2] = Undefined =>
                      /\ snd.initialDelay = 1000
                      /\ Len(snd.waits) >= 1 => snd.waits[1] >= 1000
          /\ \A k \in 1..Len(snd.codes) :
                snd.codes[k] = 200 =>
                    /\ k = Len(snd.codes)
                    /\ snd.pc = "returned"
                    /\ \A j \in 1..(k - 1) : snd.codes[j] = 429
          /\ snd.pc = "returned" =>
                /\ snd.codes # <<>>
                /\ snd.codes[Len(snd.codes)] = 200
                /\ snd.error = "none"
          /\ (/\ SendOver
              /\ Len(snd.codes) = snd.maxRetries
              /\ \A k \in 1..Len(snd.codes) : snd.codes[k] = 429)
             => snd.pc = "threw" /\ snd.error # "none")
    /\ (snd.pc # "off") ~> SendOver

C13_Witness ==
    /\ snd.args = <<Undefined, Undefined>>
    /\ snd.codes = <<429, 429, 429>>
    /\ Len(snd.waits) = 3
    /\ snd.pc = "threw"
    /\ snd.error = "exhausted"

\* C14: a message of the scraper that the transport answers with a rate limit is
\* sent again: the rejected call is not the only api.sendMessage call made for it.
C14_RateLimitedSendRetried ==
    \A p \in Procs : scr[p].err = 429 => scr[p].calls >= 2

\* the article of the item in hand
ArticleOf(news) == [title |-> news.title, link |-> news.link]

\* C17: when the content of one article cannot be scraped, the run drops that
\* article only: nothing is stored, sent or marked for it and the run turns to the
\* remaining elements; a run ends as done only when no element remains. When the
\* home page cannot be fetched the run ends at once, having stored, sent and marked
\* nothing, and the initial run that ended so counts as finished, so that the
\* scheduler starts and its runs proceed.
C17_Step ==
    \A p \in Procs :
        /\ (scr[p].pc = "content" /\ scr'[p].pc # "content" /\ scr'[p].news.summary = "") =>
              /\ scr'[p].pc = "loop"
              /\ scr'[p].left = scr[p].left - 1
              /\ scr'[p].end = "none"
              /\ UNCHANGED <<messageStore, issued, newsList, itemSent, delivered, kbd>>
        /\ (scr[p].pc = "loop" /\ scr[p].left > 0) => scr'[p].pc \in {"loop", "content"}
        /\ (scr[p].pc # "idle" /\ scr'[p].end = "done") =>
              scr[p].pc = "loop" /\ scr[p].left = 0
        /\ (scr[p].pc = "home" /\ scr'[p].pc = "idle") =>
              /\ scr'[p].end = "home failed"
              /\ UNCHANGED <<messageStore, issued, newsList, itemSent, delivered, kbd>>
        /\ (scr[1].end = "home failed" /\ nCycles.scheduled < MaxScheduled) =>
              ENABLED ScheduledScrape

C17_ArticleFailureSkipsOnlyThatArticle == [][C17_Step]_vars

\* the initial run failed on the home page; the scheduled run that followed has
\* just lost an article to a content failure and has an element left to examine
C17_Witness ==
    \E p \in Procs \ {1}, a \in Articles :
        /\ scr[1].pc = "idle"
        /\ scr[1].end = "home failed"
        /\ scr[p].pc = "loop"
        /\ scr[p].left >= 1
        /\ scr[p].news = NewsArticle(a, "", fullFormattedMessage(a, ""))

\* an item of this article is in the news list
AlreadySent(a) == \E s \in Summaries : fullFormattedMessage(a, s) \in newsList

\* C18: while runs do not overlap, an article of which an earlier run has put an
\* item in the news list is stopped by the membership test on its title and link:
\* no run that has stored no item itself is fetching the content of such an article.
C18_SeenItemSkippedBeforeFetch ==
    ~overlapped =>
        \A p \in Procs :
            (scr[p].pc = "content" /\ scr[p].tok = NoToken)
                => ~AlreadySent(ArticleOf(scr[p].news))

\* C19: an article of which an item is in the news list passes the first membership
\* test when it is scraped again, and when its content is then a summary not seen
\* before it passes the second test too: a new context holding the new full text is
\* stored under a fresh id and the item goes on to be sent.
C19_Step ==
    \A p \in Procs :
        LET a == ArticleOf(scr'[p].news)
            full == scr'[p].news.fullFormattedMessage
        IN (scr'[p] # scr[p] /\ a \in Articles /\ AlreadySent(a)) =>
              /\ (scr[p].pc = "loop" /\ scr[p].left > 0) => scr'[p].pc = "content"
              /\ (scr[p].pc = "content" /\ scr'[p].news.summary # "" /\ full \notin newsList) =>
                    /\ scr'[p].pc = "send1"
                    /\ issued' = issued + 1
                    /\ scr'[p].tok = issued'
                    /\ ~hasMessageData(messageStore, uuidv4(issued'))
                    /\ hasMessageData(messageStore', uuidv4(issued'))
                    /\ getMessageData(messageStore', uuidv4(issued')).scrapedMessageContent = full
                    /\ getMessageData(messageStore', uuidv4(issued')).originalMessageText
                          = linkOnlyMessage(a)

CallsOf(fx, op) == {i \in 1..Len(fx) : fx[i].op = op}

\* C15: every context that enters the store enters under a key above every key
\* issued before, also when contexts of earlier keys have been deleted by
\* publication; the ids a handler creates contexts under are exactly the ids issued
\* during the step, each once.
C15_Step ==
    /\ issued' >= issued
    /\ \A n \in Tokens :
          (n \in DOMAIN messageStore' /\ n \notin DOMAIN messageStore) =>
              (n > issued /\ n <= issued')
    /\ (last.kind = "none" /\ last'.kind # "none") =>
          LET created == CallsOf(last'.fx, "create")
          IN /\ Cardinality(created) = issued' - issued
             /\ \A i \in created :
                   /\ KeyOf(last'.fx[i].id) \in (issued + 1)..issued'
                   /\ \A j \in created : last'.fx[j].id = last'.fx[i].id => j = i

C15_TokensNeverReused == [][C15_Step]_vars

\* the context of token 1 was deleted by its publication, and a text message has had
\* a context created since: under token 2
C15_Witness ==
    /\ published[1] # <<>>
    /\ 1 \notin DOMAIN messageStore
    /\ last.kind = "text"
    /\ \E i \in CallsOf(last.fx, "create") : last.fx[i].id = uuidv4(2)
    /\ 2 \in DOMAIN messageStore

\* the token of an observed click on `action` whose context is in the store
ClickedToken(action) ==
    IF /\ last.kind = "none"
       /\ last'.kind = "click"
       /\ isUserAuthorized(last'.user)
       /\ Len(Split(last'.data, 2)) > 1
       /\ Split(last'.data, 2)[1] = <<Lit(action)>>
       /\ StrLen(Split(last'.data, 2)[2]) = UuidLength
       /\ hasMessageData(messageStore, Split(last'.data, 2)[2])
    THEN KeyOf(Split(last'.data, 2)[2])
    ELSE NoToken

\* C16: a context leaves the store only in a step that publishes under its token.
\* A publish click whose send to the news channel fails leaves the store, the
\* published messages and the rendered keyboards as they were; the handler then
\* sends the failure notice to the editors group, answers a failure of that notice
\* with the reply of its catch block, and ends. A publish click on a token whose
\* context is in the store, with every call succeeding, publishes the context's
\* text and deletes the context.
C16_Step ==
    /\ \A n \in Tokens :
          (n \in DOMAIN messageStore /\ n \notin DOMAIN messageStore') =>
              Len(published'[n]) = Len(published[n]) + 1
    /\ LET n == ClickedToken("chn")
           fx == last'.fx
           pub == CallsOf(fx, "publish")
       IN n # NoToken =>
             /\ \A i \in pub : ~fx[i].ok =>
                   /\ messageStore' = messageStore
                   /\ published' = published
                   /\ kbd' = kbd
                   /\ Len(fx) >= i + 1
                   /\ fx[i + 1].op = "send"
                   /\ fx[i + 1].ok => Len(fx) = i + 1
                   /\ ~fx[i + 1].ok =>
                         (Len(fx) = i + 2 /\ fx[i + 2].op = "reply" /\ fx[i + 2].text = "error")
             /\ (\A i \in 1..Len(fx) : fx[i].ok) =>
                   /\ pub # {}
                   /\ published'[n] = Append(published[n],
                          OrElse(messageStore[n].gptGeneratedContent,
                                 messageStore[n].originalMessageText))
                   /\ n \notin DOMAIN messageStore'

C16_DeletedOnlyByPublication == [][C16_Step]_vars

\* a publish click on token 1 whose send to the channel failed: the notice went out,
\* the context and its keyboard are still there
C16_Witness ==
    /\ last.kind = "click"
    /\ last.data = <<Lit("chn"), Colon>> \o uuidv4(1)
    /\ \E i \in CallsOf(last.fx, "publish") :
          /\ ~last.fx[i].ok
          /\ last.fx[i + 1].op = "send" /\ last.fx[i + 1].ok
    /\ published[1] = <<>>
    /\ 1 \in DOMAIN messageStore
    /\ kbd[1].layout = createMainKeyboard(uuidv4(1))

\* an observed rewrite click on a token whose context is in the store: the model
\* answered and the handler went on to create the context of the rewritten text
RewriteSucceeded ==
    /\ ClickedToken("gpt") # NoToken
    /\ \E i \in CallsOf(last'.fx, "gpt") : last'.fx[i].ok
    /\ CallsOf(last'.fx, "create") # {}

\* the context created by the step holds the rewritten text as its original text
NewContextForRewrite ==
    /\ issued' = issued + 1
    /\ issued' \notin DOMAIN messageStore
    /\ issued' \in DOMAIN messageStore'
    /\ messageStore'[issued'] = MessageData(uuidv4(issued'), GptText, EmptyString)

\* C20 (as stated): a successful button rewrite on token t creates a new context
\* under a fresh token whose original text is the rewritten text, and leaves the
\* context stored under t exactly as it was.
C20_Step_Untouched ==
    RewriteSucceeded =>
        /\ NewContextForRewrite
        /\ messageStore'[ClickedToken("gpt")] = messageStore[ClickedToken("gpt")]

C20_OriginalUntouched == [][C20_Step_Untouched]_vars

\* C20 (amended): a successful button rewrite on token t creates a new context
\* under a fresh token whose original text is the rewritten text; the context
\* stored under t keeps its original text, its scraped content and its keyboard
\* rows, and its rewritten text is set to the rewritten text.
C20_Step_RewriteRecorded ==
    RewriteSucceeded =>
        LET t == ClickedToken("gpt")
        IN /\ NewContextForRewrite
           /\ t \in DOMAIN messageStore'
           /\ messageStore'[t].gptGeneratedContent = GptText
           /\ messageStore'[t] = [messageStore[t] EXCEPT !.gptGeneratedContent = GptText]
           /\ messageStore'[t].originalMessageText = messageStore[t].originalMessageText
           /\ messageStore'[t].keyboard = messageStore[t].keyboard

C20_OriginalKeepsTextGainsRewrite == [][C20_Step_RewriteRecorded]_vars

\* the rewrite click on token 1 went through: both contexts are in the store
C20_Witness ==
    /\ last.kind = "click"
    /\ last.data = <<Lit("gpt"), Colon>> \o uuidv4(1)
    /\ \E i \in CallsOf(last.fx, "gpt") : last.fx[i].ok
    /\ CallsOf(last.fx, "create") # {}
    /\ 1 \in DOMAIN messageStore /\ 2 \in DOMAIN messageStore
    /\ messageStore[1].gptGeneratedContent = GptText
    /\ messageStore[1].originalMessageText # GptText
    /\ messageStore[2].originalMessageText = GptText

\* C21: a rewrite click on a stored context whose model call gives no answer leaves
\* the store, the issued ids, the published messages and the rendered keyboards as
\* they were; the handler makes no create, store or delete call, sends the failure
\* notice to the editors group, answers a failure of that notice with the reply of
\* its catch block, and ends.
C21_Step ==
    LET fx == last'.fx
    IN ClickedToken("gpt") # NoToken =>
          \A i \in CallsOf(fx, "gpt") : ~fx[i].ok =>
              /\ messageStore' = messageStore
              /\ issued' = issued
              /\ published' = published
              /\ kbd' = kbd
              /\ convs' = convs
              /\ \A j \in 1..Len(fx) : fx[j].op \notin {"create", "store", "delete", "edit"}
              /\ Len(fx) >= i + 1
              /\ fx[i + 1].op = "send"
              /\ fx[i + 1].ok => Len(fx) = i + 1
              /\ ~fx[i + 1].ok =>
                    (Len(fx) = i + 2 /\ fx[i + 2].op = "reply" /\ fx[i + 2].text = "error")

C21_RewriteFailureIsSoft == [][C21_Step]_vars

\* the rewrite click on token 1 got no answer from the model: the notice went out,
\* the context is unchanged and the item's keyboard is still the main keyboard
C21_Witness ==
    /\ last.kind = "click"
    /\ last.data = <<Lit("gpt"), Colon>> \o uuidv4(1)
    /\ \E i \in CallsOf(last.fx, "gpt") :
          /\ ~last.fx[i].ok
          /\ last.fx[i + 1].op = "send" /\ last.fx[i + 1].ok
    /\ 1 \in DOMAIN messageStore
    /\ messageStore[1].gptGeneratedContent = EmptyString
    /\ kbd[1].layout = createMainKeyboard(uuidv4(1))
    /\ issued = 1

\* the chat whose waiting conversation consumed the observed text message
ResumedChats ==
    {c \in Chats : /\ last.kind = "none"
                   /\ last'.kind = "text"
                   /\ convs[c] # <<>>
                   /\ convs'[c] = Tail(convs[c])}

\* C22: when the model gives no answer to a custom prompt, the conversation creates
\* no context and changes none; once its failure reply went through it edits the
\* prompt message and then sets the message's keyboard, and when both edits go
\* through the message shows the main keyboard of the conversation's token, which is
\* the keyboard stored in the token's context.
C22_Step ==
    \A c \in ResumedChats :
        LET fx == last'.fx
            inst == Head(convs[c])
        IN \A i \in CallsOf(fx, "gpt") : ~fx[i].ok =>
              /\ messageStore' = messageStore
              /\ issued' = issued
              /\ CallsOf(fx, "create") = {}
              /\ Len(fx) >= i + 1
              /\ fx[i + 1].op = "reply" /\ fx[i + 1].text = "failed"
              /\ fx[i + 1].ok =>
                    /\ Len(fx) >= i + 2
                    /\ fx[i + 2].op = "edit"
                    /\ fx[i + 2].ok => (Len(fx) >= i + 3 /\ fx[i + 3].op = "editMarkup")
                    /\ IF fx[i + 2].ok /\ fx[i + 3].ok
                       THEN /\ kbd'[inst.msg].layout = createMainKeyboard(uuidv4(inst.tok))
                            /\ inst.tok \in DOMAIN messageStore =>
                                  kbd'[inst.msg].layout = messageStore[inst.tok].keyboard
                       ELSE kbd' = kbd

C22_FailedPromptRestoresKeyboard == [][C22_Step]_vars

\* the custom prompt for token 1 got no answer from the model: the message that
\* showed the cancel row shows the stored main keyboard again
C22_Witness ==
    /\ last.kind = "text"
    /\ \E i \in CallsOf(last.fx, "gpt") : ~last.fx[i].ok
    /\ \E i \in CallsOf(last.fx, "editMarkup") : last.fx[i].ok
    /\ hist.exit[EditorsGroup] = "rewrite failed"
    /\ 1 \in DOMAIN messageStore
    /\ kbd[1].layout = messageStore[1].keyboard
    /\ issued = 1

\* the action tags the handler knows
KnownActions == ContextActions \cup {"start_scraping", "support"}

\* the payload up to, and after, its first ':' (all of it, and nothing, without ':')
RECURSIVE BeforeFirst(_)
BeforeFirst(s) ==
    IF s = <<>> \/ Head(s) = Colon THEN <<>> ELSE <<Head(s)>> \o BeforeFirst(Tail(s))

RECURSIVE AfterFirst(_)
AfterFirst(s) ==
    IF s = <<>> THEN <<>>
    ELSE IF Head(s) = Colon THEN Tail(s) ELSE AfterFirst(Tail(s))

HasDelimiter(s) == \E i \in 1..Len(s) : s[i] = Colon

\* the observed update is a click of an authorized user
AuthorizedClick == last.kind = "click" /\ isUserAuthorized(last.user)

\* C23: a click with a data segment whose action tag is not a known one is answered
\* first, and with "unknown action", and the store is not read for it.
C23_UnknownActionBeforeLookup ==
    (/\ AuthorizedClick
     /\ HasDelimiter(last.data)
     /\ BeforeFirst(last.data) \notin {<<Lit(a)>> : a \in KnownActions})
    => /\ CallsOf(last.fx, "get") = {}
       /\ last.fx[1].op = "ack"
       /\ last.fx[1].text = "unknown action"

\* C24: the id the store is read with is all of the payload after its first ':';
\* when that remainder is not 36 characters long the click on a context action (one
\* that is not a model selection) is answered with "invalid id" and the store is
\* not read.
C24_SplitOnFirstDelimiterOnly ==
    (/\ AuthorizedClick
     /\ BeforeFirst(last.data) \in {<<Lit(a)>> : a \in ContextActions}
     /\ last.data \notin LiteralPayloads)
    => /\ \A i \in CallsOf(last.fx, "get") : last.fx[i].id = AfterFirst(last.data)
       /\ StrLen(AfterFirst(last.data)) # UuidLength =>
             /\ CallsOf(last.fx, "get") = {}
             /\ \E i \in CallsOf(last.fx, "ack") : last.fx[i].text = "invalid id"

\* the calls of a handler that reads or writes the store or the session, starts a
\* scrape, or is the support reply
ActsOnClick(call) ==
    \/ call.op \in {"get", "create", "store", "delete", "session", "runScraper",
                     "publish", "gpt", "enter"}
    \/ call.op = "reply" /\ call.text = "support"

C28_OneConversationPerSession ==
    \A c \in Chats :
        /\ Len(convs[c]) <= 1
        /\ convs[c] # <<>> =>
              session[c].messageStoreIdForNewPrompt = uuidv4(Head(convs[c]).tok)

\* C29: the text message that resolves a waiting prompt conversation comes from the
\* chat the conversation was started in and from the user who started it, and a
\* text message leaves the conversations of every other chat as they were.
C29_Step ==
    (last.kind = "none" /\ last'.kind = "text") =>
        /\ \A c \in Chats \ {last'.chat} : convs'[c] = convs[c]
        /\ \A c \in ResumedChats :
              /\ c = last'.chat
              /\ last'.user = Head(convs[c]).user

C29_OnlyOriginatorResolves == [][C29_Step]_vars

\* C26: a click of an authorized user on a fixed-literal action (a model selection,
\* its cancel, start_scraping, support) is acknowledged first and makes no get,
\* create, store or delete call; the store, the issued ids, the published messages
\* and the conversations are left as they were. An acknowledged selection of a model
\* sets currentGptModel in the session of the click's chat and changes nothing else
\* of the sessions; every other literal action leaves the sessions as they were.
C26_Step ==
    (/\ last.kind = "none"
     /\ last'.kind = "click"
     /\ isUserAuthorized(last'.user)
     /\ last'.data \in LiteralPayloads)
    => LET fx == last'.fx
           dataPart == AfterFirst(last'.data)
           model == IF dataPart = <<Lit("4o")>> THEN "gpt-4o" ELSE "gpt-3.5-turbo"
       IN /\ fx[1].op = "ack"
          /\ \A i \in 1..Len(fx) : fx[i].op \notin {"get", "create", "store", "delete"}
          /\ messageStore' = messageStore
          /\ issued' = issued
          /\ published' = published
          /\ convs' = convs
          /\ IF fx[1].ok /\ dataPart \in {<<Lit("4o")>>, <<Lit("3.5t")>>}
             THEN session' = [session EXCEPT ![last'.chat].currentGptModel = model]
             ELSE session' = session

C26_LiteralActionsNeedNoContext == [][C26_Step]_vars

\* with an empty store, a click set the model to GPT-3.5 Turbo and all of its
\* calls went through
C26_Witness ==
    /\ AuthorizedClick
    /\ last.data = <<Lit("gpt"), Colon, Lit("3.5t")>>
    /\ \A i \in 1..Len(last.fx) : last.fx[i].ok
    /\ session[last.chat].currentGptModel = "gpt-3.5-turbo"
    /\ DOMAIN messageStore = {}

\* a run started from the start_scraping button that has not ended
AdhocRunning == \E p \in Procs : p > 1 /\ Running(p)

\* C27: the handler of an authorized start_scraping click acknowledges first, then
\* replies, and launches the run only after both went through; when the handler has
\* returned the run it launched has begun and not ended.  While a run launched from
\* the button has not ended the bot takes updates (the initial run, the only one
\* awaited, is over), and handling one leaves the run where it is.
C27_Step ==
    /\ (/\ last.kind = "none"
        /\ last'.kind = "click"
        /\ isUserAuthorized(last'.user)
        /\ last'.data = <<Lit("start_scraping")>>)
       => LET fx == last'.fx
          IN /\ fx[1].op = "ack"
             /\ \A i \in CallsOf(fx, "runScraper") :
                   /\ i = 3
                   /\ fx[1].op = "ack" /\ fx[1].ok
                   /\ fx[2].op = "reply" /\ fx[2].ok
             /\ (Len(fx) >= 2 /\ fx[1].ok /\ fx[2].ok) => CallsOf(fx, "runScraper") = {3}
             /\ nEvents' = nEvents + 1
             /\ IF CallsOf(fx, "runScraper") # {}
                THEN /\ ~Running(Started + 1)
                     /\ scr'[Started + 1].pc = "home"
                     /\ nCycles'.adhoc = nCycles.adhoc + 1
                ELSE scr' = scr /\ nCycles' = nCycles
    /\ AdhocRunning
       => /\ Booted
          /\ nEvents' = nEvents + 1 => \A p \in Procs : Running(p) => scr'[p] = scr[p]

C27_ScrapeDetachedFromClick == [][C27_Step]_vars

\* an update was handled while the run launched by an earlier start_scraping click
\* had not ended
C27_Witness ==
    /\ AdhocRunning
    /\ nCycles.adhoc = 1
    /\ last.kind \in {"click", "text"}
    /\ last.data # <<Lit("start_scraping")>>
    /\ nEvents = 2

\* the callback data of a stored layout, row by row
PayloadsOf(keyboard) ==
    [i \in 1..Len(keyboard) |->
        [j \in 1..Len(keyboard[i]) |-> keyboard[i][j].callback_data]]

\* C30: the layout stored in the context under key n is, for as long as the context
\* is stored, three rows of one button each: rewrite, publish and new prompt, each
\* carrying the id of key n.  (The layout being a function of the key alone, no
\* operation on a stored context changes it.)
C30_StoredLayoutIsMainKeyboard ==
    \A n \in DOMAIN messageStore :
        PayloadsOf(messageStore[n].keyboard) =
            << <<(<<Lit("gpt"), Colon>> \o uuidv4(n))>>,
               <<(<<Lit("chn"), Colon>> \o uuidv4(n))>>,
               <<(<<Lit("prm"), Colon>> \o uuidv4(n))>> >>

\* a rewrite went through: the context of the clicked message holds the rewrite and
\* is still stored, next to the context created for the rewritten text
C30_Witness ==
    /\ last.kind = "click"
    /\ last.data = <<Lit("gpt"), Colon>> \o uuidv4(1)
    /\ \A i \in 1..Len(last.fx) : last.fx[i].ok
    /\ DOMAIN messageStore = {1, 2}
    /\ messageStore[1].gptGeneratedContent # EmptyString

\* C31: also when scrape cycles have overlapped, no item of one full-text
\* fingerprint has been delivered (message and keyboard) more than once.
C31_OverlapDeliversOnce ==
    overlapped => \A f \in Fingerprints : delivered[f] <= 1

\* C32: a key whose id was issued and whose context is no longer stored (it was
\* deleted by a publication) holds no context after any later step.
C32_Step ==
    \A n \in Tokens :
        (n <= issued /\ n \notin DOMAIN messageStore) => n \notin DOMAIN messageStore'

C32_DeletedContextStaysDeleted == [][C32_Step]_vars

\* after the publication of the first item deleted its context, a rewrite click on
\* the same id was looked up and answered without a rewrite
C32_Witness ==
    /\ AuthorizedClick
    /\ last.data = <<Lit("gpt"), Colon>> \o uuidv4(1)
    /\ CallsOf(last.fx, "get") # {}
    /\ CallsOf(last.fx, "gpt") = {}
    /\ published[1] # <<>>
    /\ issued >= 1
    /\ 1 \notin DOMAIN messageStore

\* C33: a click of a user who is neither an allowed user nor the listener is
\* answered by one call, the acknowledgement "unauthorized", and leaves the store,
\* the issued ids, the news list, the sessions, the conversations, the keyboards,
\* the published messages and the scraper runs as they were, whatever the payload.
C33_Step ==
    (/\ last.kind = "none"
     /\ last'.kind = "click"
     /\ last'.user \notin {AllowedUser, ListenerUser})
    => /\ Len(last'.fx) = 1
       /\ last'.fx[1].op = "ack"
       /\ last'.fx[1].text = "unauthorized"
       /\ UNCHANGED <<messageStore, issued, newsList, session, convs, kbd, published,
                      scr, nCycles, itemSent, delivered, hist>>

C33_UnauthorizedClickHasNoEffect == [][C33_Step]_vars

\* a stranger clicked start_scraping while a context was stored; the click was
\* acknowledged
C33_Witness ==
    /\ last.kind = "click"
    /\ last.user = Stranger
    /\ last.data = <<Lit("start_scraping")>>
    /\ last.fx[1].ok
    /\ nCycles.adhoc = 0
    /\ DOMAIN messageStore # {}

\* the calls that put something in the editors group: a message or a keyboard
SentToGroup(fx) == {i \in 1..Len(fx) : fx[i].op \in {"send", "sendKeyboard"}}

\* C34: a text message whose sender is neither an allowed user nor the listener, or
\* that comes from a chat other than the editors group and a private chat, creates
\* no context and sends nothing to the editors group.
C34_OnlyAuthorizedTextCreatesContext ==
    (/\ last.kind = "text"
     /\ \/ ~isUserAuthorized(last.user)
        \/ last.chat \notin {EditorsGroup, PrivateChat})
    => /\ CallsOf(last.fx, "create") = {}
       /\ SentToGroup(last.fx) = {}

\* the contexts a step put in the store
NewContexts == {n \in DOMAIN messageStore' : n \notin DOMAIN messageStore}

\* C35: a text message in the editors group is consumed once.  When a conversation of
\* the chat is waiting, the conversation takes it (and ends) and the text is not made
\* an item: at most one context is created, and none holds the text as its original
\* text.  When none is waiting, the text of an authorized sender becomes one new
\* context holding it, without a model call, and the text of any other sender creates
\* nothing.
C35_Step ==
    (/\ last.kind = "none"
     /\ last'.kind = "text"
     /\ last'.chat = EditorsGroup)
    => LET fx == last'.fx
           c == last'.chat
       IN IF convs[c] # <<>>
          THEN /\ Len(convs'[c]) = Len(convs[c]) - 1
               /\ fx[1].op = "reply" /\ fx[1].text = "processing"
               /\ Cardinality(NewContexts) <= 1
               /\ Cardinality(CallsOf(fx, "create")) = Cardinality(NewContexts)
               /\ \A n \in NewContexts : messageStore'[n].originalMessageText # last'.data
          ELSE IF last'.user \in {AllowedUser, ListenerUser}
          THEN /\ convs' = convs
               /\ CallsOf(fx, "gpt") = {}
               /\ CallsOf(fx, "create") = {1}
               /\ NewContexts = {issued + 1}
               /\ messageStore'[issued + 1].originalMessageText = last'.data
          ELSE /\ fx = <<>>
               /\ NewContexts = {}
               /\ convs' = convs

C35_TextHasOneConsumer == [][C35_Step]_vars

\* the waiting conversation took the admin's text as its prompt and the rewrite was
\* delivered: the store holds the item's context and the rewrite's, nothing else
C35_Witness ==
    /\ last.kind = "text"
    /\ last.chat = EditorsGroup
    /\ last.user = AllowedUser
    /\ CallsOf(last.fx, "gpt") # {}
    /\ \A i \in 1..Len(last.fx) : last.fx[i].ok
    /\ convs[EditorsGroup] = <<>>
    /\ Cardinality(DOMAIN messageStore) = 2
    /\ \A n \in DOMAIN messageStore : messageStore[n].originalMessageText # last.data

\* C36: the context of an id is stored before the keyboard carrying the id is sent.
\* In a handler the create call precedes every keyboard send; a scraper run that is
\* about to send an item's message or keyboard has its context in the store; and
\* every message that ever showed a keyboard belongs to an id whose context is
\* stored or was deleted by its publication.
C36_ContextBeforeKeyboard ==
    /\ \A i \in CallsOf(last.fx, "sendKeyboard") :
          \E j \in CallsOf(last.fx, "create") : j < i
    /\ \A p \in Procs :
          scr[p].pc \in {"send1", "send2"} => scr[p].tok \in DOMAIN messageStore
    /\ \A t \in Tokens :
          kbd[t].sent => (t <= issued /\ (t \in DOMAIN messageStore \/ published[t] # <<>>))

\* the admin's text was made an item: its context was created, then its message and
\* its keyboard were sent, and the keyboard is on display
C36_Witness ==
    /\ last.kind = "text"
    /\ last.user = AllowedUser
    /\ CallsOf(last.fx, "gpt") = {}
    /\ Len(last.fx) = 3
    /\ last.fx[1].op = "create" /\ last.fx[1].id = uuidv4(issued)
    /\ last.fx[3].op = "sendKeyboard" /\ last.fx[3].ok
    /\ kbd[issued].sent
    /\ kbd[issued].layout = createMainKeyboard(uuidv4(issued))
    /\ issued \in DOMAIN messageStore

\* C37: the text a publish click on a stored context sends to the news channel is
\* the context's gptGeneratedContent when it is set and its originalMessageText
\* otherwise; for a scraped item that was not rewritten that is the short form
\* (title and link) and not the stored full content.  Nothing else is sent to the
\* channel.
C37_Step ==
    (last.kind = "none" /\ last'.kind # "none")
    => LET n == ClickedToken("chn")
       IN IF n # NoToken /\ \E i \in CallsOf(last'.fx, "publish") : last'.fx[i].ok
          THEN LET messageData == messageStore[n]
                   text == IF messageData.gptGeneratedContent # EmptyString
                           THEN messageData.gptGeneratedContent
                           ELSE messageData.originalMessageText
               IN /\ published' = [published EXCEPT ![n] = Append(@, text)]
                  /\ (messageData.gptGeneratedContent = EmptyString
                        /\ messageData.scrapedMessageContent # EmptyString)
                     => /\ text # messageData.scrapedMessageContent
                        /\ \E a \in Articles : text = linkOnlyMessage(a)
          ELSE published' = published

C37_PublishedTextIsRewriteOrOriginal == [][C37_Step]_vars

\* the scraped item of the initial run was published without a rewrite: the channel
\* got its title and link, and the context, which held the full content, is gone
C37_Witness ==
    /\ AuthorizedClick
    /\ last.data = <<Lit("chn"), Colon>> \o uuidv4(1)
    /\ \A i \in 1..Len(last.fx) : last.fx[i].ok
    /\ published[1] = <<linkOnlyMessage([title |-> "t1", link |-> "l1"])>>
    /\ 1 \notin DOMAIN messageStore
    /\ itemSent[fullFormattedMessage([title |-> "t1", link |-> "l1"], "s1")] = 1

\* the model a rewrite request of chat c is to use: the one selected last in the
\* chat's session, the configured default when none was selected
StickyModel(h, c) == IF h.selected[c] = "none" THEN DefaultModel ELSE h.selected[c]

\* C38: after every step the model kept in a chat's session is the one selected last
\* in that session (cancelled selections and everything else leave it alone), or the
\* configured default when none was selected; and every rewrite request, from the
\* button or from a custom prompt, calls the model service with that model.
C38_Step ==
    /\ \A c \in Chats : session'[c].currentGptModel = StickyModel(hist', c)
    /\ (last.kind = "none" /\ last'.kind # "none")
       => /\ \A i \in CallsOf(last'.fx, "gpt") :
                last'.fx[i].text = StickyModel(hist, last'.chat)
          /\ (last'.kind = "click" /\ last'.data = <<Lit("gpt"), Colon, Lit("cancel")>>)
             => session' = session /\ hist' = hist

C38_PreferredModelIsSticky == [][C38_Step]_vars

\* GPT-3.5 Turbo was selected in the editors group, and the rewrite click that
\* followed called the model service with it
C38_Witness ==
    /\ AuthorizedClick
    /\ last.chat = EditorsGroup
    /\ last.data = <<Lit("gpt"), Colon>> \o uuidv4(1)
    /\ hist.selected[EditorsGroup] = "gpt-3.5-turbo"
    /\ \E i \in CallsOf(last.fx, "gpt") :
          last.fx[i].ok /\ last.fx[i].text = "gpt-3.5-turbo"

\* C39: when api.sendMessage rejects with a rate limit whose retry_after is absent or
\* zero, the call ends at once: it throws that error, having counted the attempt,
\* with no wait recorded and no attempt after it, also when attempts remain.  So no
\* wait ever follows a rate limit without a retry_after, and a call that threw stays
\* as it is.
C39_Step ==
    /\ (/\ snd.pc = "attempt"
        /\ snd' = Caught([snd EXCEPT !.calls = @ + 1, !.codes = Append(@, 429)], 429, 0))
       => /\ snd'.pc = "threw"
          /\ snd'.error = "429"
          /\ snd'.waits = snd.waits
          /\ snd'.retryAfters = snd.retryAfters
          /\ snd'.calls = snd.calls + 1
          /\ snd'.attempts = snd.attempts + 1
    /\ \A i \in 1..Len(snd'.retryAfters) : snd'.retryAfters[i] # 0
    /\ snd.pc = "threw" => snd' = snd

C39_RateLimitWithoutRetryAfterFails == [][C39_Step]_vars

\* a first rate limit carried a retry_after and was waited for; the second carried
\* none and ended the call with one attempt still allowed
C39_Witness ==
    /\ snd.pc = "threw"
    /\ snd.error = "429"
    /\ snd.codes = <<429, 429>>
    /\ Len(snd.waits) = 1
    /\ snd.attempts = 2
    /\ snd.maxRetries = 3

\* the buttons of a keyboard
ButtonsOf(keyboard) ==
    UNION {{keyboard[i][j] : j \in 1..Len(keyboard[i])} : i \in 1..Len(keyboard)}

\* the acknowledgement by which the handler of each button's action answers
AckOf(buttonText) ==
    CASE buttonText = "Send to GPT" -> "processing"
      [] buttonText = "Send to News Channel" -> "sending"
      [] buttonText = "New Prompt" -> ""
      [] buttonText = "Cancel New Prompt" -> "cancelled"
      [] buttonText = "GPT-4o" -> "model 4o"
      [] buttonText = "GPT-3.5 Turbo" -> "model 3.5t"
      [] buttonText = "Cancel" -> "model cancel"
      [] buttonText = "Start Scraping" -> "start scraping"
      [] buttonText = "Support" -> "support"

\* C40: every button the keyboard builders produce comes back to the handler as the
\* action the button stands for.  A click on a button of the main or the cancel
\* keyboard built for the id of key t looks up exactly that id and, when its context
\* is stored, is acknowledged as the button's action; a click on a button of the
\* model keyboard or of the /start keyboard is acknowledged as the button's action
\* without a lookup.
C40_Step ==
    (/\ last.kind = "none"
     /\ last'.kind = "click"
     /\ isUserAuthorized(last'.user))
    => LET fx == last'.fx
       IN /\ \A t \in Tokens :
                \A btn \in ButtonsOf(createMainKeyboard(uuidv4(t)))
                             \cup ButtonsOf(createCancelKeyboard(uuidv4(t))) :
                   btn.callback_data = last'.data
                   => /\ StrLen(uuidv4(t)) = UuidLength
                      /\ fx[1].op = "get"
                      /\ fx[1].id = uuidv4(t)
                      /\ CallsOf(fx, "get") = {1}
                      /\ t \in DOMAIN messageStore
                         => fx[2].op = "ack" /\ fx[2].text = AckOf(btn.text)
          /\ \A btn \in ButtonsOf(createGptModelKeyboard) \cup ButtonsOf(createStartKeyboard) :
                btn.callback_data = last'.data
                => /\ fx[1].op = "ack"
                   /\ fx[1].text = AckOf(btn.text)
                   /\ CallsOf(fx, "get") = {}

C40_KeyboardRouterRoundTrip == [][C40_Step]_vars

\* the cancel button rendered for the first item's prompt was clicked: the id of the
\* item was looked up and the click acknowledged as a cancel
C40_Witness ==
    /\ AuthorizedClick
    /\ last.data = createCancelKeyboard(uuidv4(1))[1][1].callback_data
    /\ last.fx[1].op = "get" /\ last.fx[1].id = uuidv4(1)
    /\ last.fx[2].op = "ack" /\ last.fx[2].text = "cancelled" /\ last.fx[2].ok
    /\ hist.exit[EditorsGroup] = "cancel"
    /\ kbd[1].layout = createMainKeyboard(uuidv4(1))

=============================================================================
